---------------------------- MODULE Spec2Model ----------------------------
(***************************************************************************)
(* Verification model of cloudigrade's AWS image-inspection pipeline       *)
(* (api/clouds/aws/tasks.py): the ready-volume work queue, the inspection  *)
(* cluster scaler (scale_up_inspection_cluster), the inspection dispatcher *)
(* (run_inspection_cluster) and the result collector                       *)
(* (persist_aws_inspection_cluster_results).                               *)
(***************************************************************************)
EXTENDS Integers, Sequences, FiniteSets, TLC

(***************************************************************************)
(* Bounds of the model.                                                    *)
(***************************************************************************)
\* number of times SQS may deliver a ready-volume message once more
MaxDuplicates == 1
\* number of automatic retries of a failed run_inspection_cluster task
MaxRetries == 1
\* largest number of container instances the ECS cluster registers
MaxHosts == 2
\* settings.HOUNDIGRADE_AWS_VOLUME_BATCH_SIZE
HOUNDIGRADE_AWS_VOLUME_BATCH_SIZE == 2
\* largest number of tag events one feed message holds
MaxTagEvents == 3
\* number of images other tasks create while the analyzer runs
MaxOtherCreates == 1

(***************************************************************************)
(* Values.                                                                 *)
(***************************************************************************)
Amis == {"ami-1", "ami-2"}
Vols == {"vol-1", "vol-2"}
\* the volume create_volume made for each image
VolumeOf == [a \in Amis |-> IF a = "ami-1" THEN "vol-1" ELSE "vol-2"]
\* inspection details houndigrade reports for an image
Payloads == {"rhel", "plain"}

\* MachineImage.status values; NONE stands for "no record in the store"
PENDING == "pending"
PREPARING == "preparing"
INSPECTING == "inspecting"
INSPECTED == "inspected"
ERROR == "error"
UNAVAILABLE == "unavailable"
NONE == "NONE"
Statuses == {PENDING, PREPARING, INSPECTING, INSPECTED, ERROR, UNAVAILABLE}

\* a ready-volume message {"ami_id": ..., "volume_id": ...}
Message(a, v) == [ami_id |-> a, volume_id |-> v]
Messages == {Message(a, v) : a \in Amis, v \in Vols}

\* CLOUD_KEY / CLOUD_TYPE_AWS: the cloud argument of run_inspection_cluster
CLOUD_TYPE_AWS == "aws"

VARIABLES
    status,            \* store: MachineImage.status per EC2 AMI id, or NONE
    inspection_json,   \* store: MachineImage.inspection_json per AMI id
    volume,            \* provider: state of each EBS volume
    device,            \* provider: device an attached volume sits at, or "none"
    delete_on_term,    \* provider: volumes set to DeleteOnTermination
    queue,             \* the ready_volumes SQS queue
    duplicates,        \* redeliveries SQS has made so far
    asg,               \* provider: the houndigrade Auto Scaling group
    hosts,             \* provider: container instances of the ECS cluster
    host_running,      \* provider: the EC2 instance of the host is running
    enqueue_tasks,     \* pending enqueue_ready_volume Celery tasks
    run_tasks,         \* pending run_inspection_cluster Celery tasks
    scale_down_tasks,  \* a scale_down_cluster Celery task is pending
    jobs,              \* ECS scan tasks launched whose results are awaited
    launches,          \* every command ever handed to ecs.run_task
    debug,             \* settings.HOUNDIGRADE_DEBUG
    last,              \* what the most recent task execution did
    ami_tag_events,    \* tag resolution: the tag events received, in order
    tag_change,        \* tag resolution: what was extracted from them
    feed,              \* the CloudTrail SQS queue: the messages on it
    body,              \* the image ids the log of each feed message refers to
    an,                \* analyze_log: where it stands and what it holds
    starts,            \* every call of start_image_inspection so far
    other_creates,     \* images other tasks have created so far
    staging_tasks,     \* pending Celery tasks of the staging of images
    ec2,               \* provider: read grants, snapshot copies, image copies
    is_encrypted,      \* store: the images whose is_encrypted flag is set
    image_copies,      \* store: the AwsMachineImageCopy records
    aws_marketplace_image, \* store: the images flagged as marketplace images
    staged,            \* what the most recent staging task did
    aws_account,       \* store: the cloud account and what is saved for it
    describer,         \* initial_aws_describe_instances: where it stands
    users,             \* store: the usernames of the Django Users
    authenticated,     \* the most recent call of authenticate
    scalers,           \* overlapping runs of scale_up_inspection_cluster
    helper             \* a helper of the analyzer: its arguments and result

\* the variables of the inspection pipeline
pipelineVars == <<status, inspection_json, volume, device, delete_on_term,
                  queue, duplicates, asg, hosts, host_running, enqueue_tasks,
                  run_tasks, scale_down_tasks, jobs, launches, debug, last>>
\* the variables of tag resolution
tagVars == <<ami_tag_events, tag_change>>
\* the variables of the CloudTrail analyzer (beside the store)
analyzerVars == <<feed, body, an, starts, other_creates>>
\* the variables of the staging of images (beside the store, the volumes
\* and the queue)
stagingVars == <<staging_tasks, ec2, is_encrypted, image_copies,
                 aws_marketplace_image, staged>>
\* the variables of the initial describe (beside the store)
describeVars == <<aws_account, describer>>
\* the variables of the identity header authentication
authVars == <<users, authenticated>>
\* the variables the inspection pipeline never touches
\* the variables of overlapping scaler runs
scalerVars == <<scalers>>
\* the variables of the helpers checked on their own
callVars == <<helper>>
besideVars ==
    <<tagVars, analyzerVars, stagingVars, describeVars, authVars, scalerVars,
      callVars>>

vars == <<pipelineVars, besideVars>>

storeVars == <<status, inspection_json>>
volumeVars == <<volume, device, delete_on_term>>
clusterVars == <<asg, hosts, host_running>>

(***************************************************************************)
(* Helpers on sequences.                                                   *)
(***************************************************************************)
Min(a, b) == IF a < b THEN a ELSE b

Range(s) == {s[i] : i \in 1..Len(s)}

RECURSIVE Concat(_, _)
Concat(s, t) == IF t = <<>> THEN s ELSE Concat(Append(s, Head(t)), Tail(t))

Prefix(s, n) == [i \in 1..n |-> s[i]]
Suffix(s, n) == [i \in 1..(Len(s) - n) |-> s[i + n]]
RemoveAt(s, k) == [i \in 1..(Len(s) - 1) |-> IF i < k THEN s[i] ELSE s[i + 1]]

(***************************************************************************)
(* The record of the most recent task execution.                           *)
(***************************************************************************)
Did(op, result, arg, outcomes) ==
    [op |-> op, result |-> result, arg |-> arg, outcomes |-> outcomes,
     command |-> <<>>]
NoLast == Did("none", "none", <<>>, <<>>)
\* the messages the CloudTrail queue can hold
FeedMessages == {"msg-1", "msg-2"}
\* an image the provider has not described
NotDescribed == [kind |-> "none", found_by_account_arn |-> "none",
                 found_in_region |-> "none"]
\* analyze_log is not running
AnalyzerIdle ==
    [pc |-> "idle", message |-> "none", pending |-> {},
     described |-> [a \in Amis |-> NotDescribed],
     tx |-> [a \in Amis |-> NONE],
     new_images |-> {}, unavailable |-> {},
     successes |-> <<>>, failures |-> <<>>, raised |-> "none",
     provider_calls |-> {}]
\* an enabled cloud account with nothing saved for it
NewAccount == [exists |-> TRUE, is_enabled |-> TRUE, instances |-> {}]
\* initial_aws_describe_instances is scheduled and has not run
DescriberIdle ==
    [pc |-> "begin", instances_data |-> {}, new_ami_ids |-> {},
     provider_calls |-> 0, result |-> "none"]
\* the runs of scale_up_inspection_cluster that can overlap
Scalers == {"scaler-1", "scaler-2"}
\* no run of scale_up_inspection_cluster is under way
ScalersIdle == [e \in Scalers |-> "idle"]
\* no helper has been called
NoCall == [op |-> "none"]
\* authenticate has not been called
NoAuthenticated ==
    [class |-> "none", request |-> "none", outcome |-> "none", user |-> "none"]
\* no staging task has run
NoStaged == [task |-> "none", ami_id |-> "none", reference_ami_id |-> "none",
             found |-> "none", raised |-> "none"]
\* the provider holds nothing made for staging
NoEc2 ==
    [shared |-> {}, snapshot_copies |-> {}, completed |-> {},
     ami_copies |-> {}]
\* tag resolution has not run
NoTagChange == [tag |-> "none", tagged |-> {}, untagged |-> {}]

(***************************************************************************)
(* Initial state: the staging pipeline has created one volume per image    *)
(* (create_volume) and scheduled enqueue_ready_volume for it; each image   *)
(* is PREPARING; the inspection cluster is scaled down to zero.            *)
(***************************************************************************)
\* what is beside the pipeline is at rest
BesideInit ==
    /\ ami_tag_events = <<>>
    /\ tag_change = NoTagChange
    /\ feed = {}
    /\ body = [m \in FeedMessages |-> {}]
    /\ an = AnalyzerIdle
    /\ starts = <<>>
    /\ other_creates = 0
    /\ staging_tasks = {}
    /\ ec2 = NoEc2
    /\ is_encrypted = {}
    /\ image_copies = {}
    /\ aws_marketplace_image = {}
    /\ staged = NoStaged
    /\ aws_account = NewAccount
    /\ describer = DescriberIdle
    /\ users = {}
    /\ authenticated = NoAuthenticated
    /\ scalers = ScalersIdle
    /\ helper = NoCall

Init ==
    /\ status = [a \in Amis |-> PREPARING]
    /\ inspection_json = [a \in Amis |-> "null"]
    /\ volume = [v \in Vols |-> "creating"]
    /\ device = [v \in Vols |-> "none"]
    /\ delete_on_term = {}
    /\ queue = <<>>
    /\ duplicates = 0
    /\ asg = [MinSize |-> 0, MaxSize |-> 0, DesiredCapacity |-> 0]
    /\ hosts = 0
    /\ host_running = FALSE
    /\ enqueue_tasks = {Message(a, VolumeOf[a]) : a \in Amis}
    /\ run_tasks = <<>>
    /\ scale_down_tasks = FALSE
    /\ jobs = <<>>
    /\ launches = <<>>
    /\ debug \in BOOLEAN
    /\ last = NoLast
    /\ BesideInit


(***************************************************************************)
(* The provider (AWS) and the store, as the tasks see them.                *)
(***************************************************************************)
\* aws.is_scaled_down: instance count 0 and MinSize, MaxSize, DesiredCapacity 0
is_scaled_down(group, instances) ==
    /\ group.MinSize = 0
    /\ group.MaxSize = 0
    /\ group.DesiredCapacity = 0
    /\ instances = 0

\* aws.scale_up: the group is asked for exactly one instance
scale_up(group) == [MinSize |-> 1, MaxSize |-> 1, DesiredCapacity |-> 1]

\* aws.scale_down: the group is asked for no instance
scale_down(group) == [MinSize |-> 0, MaxSize |-> 0, DesiredCapacity |-> 0]

\* read_messages_from_queue: takes up to max_count messages off the queue
read_messages_from_queue(q, max_count) == Prefix(q, Min(max_count, Len(q)))

\* add_messages_to_queue: appends the messages to the queue
add_messages_to_queue(q, messages) == Concat(q, messages)

\* update_aws_image_status_inspected: False when there is no record
update_aws_image_status_inspected(st, ec2_ami_id) ==
    IF st[ec2_ami_id] = NONE THEN st ELSE [st EXCEPT ![ec2_ami_id] = INSPECTED]

\* update_aws_image_status_inspected(..., inspection_json=...): the payload
\* is saved with the status
update_aws_image_inspection_json(js, st, ec2_ami_id, image_json) ==
    IF st[ec2_ami_id] = NONE THEN js
    ELSE [js EXCEPT ![ec2_ami_id] = image_json]

\* update_aws_image_status_error: False when there is no record
update_aws_image_status_error(st, ec2_ami_id) ==
    IF st[ec2_ami_id] = NONE THEN st ELSE [st EXCEPT ![ec2_ami_id] = ERROR]

\* util.misc.generate_device_name: /dev/xvd + two letters derived from index
Letters == <<"a", "b", "c", "d", "e", "f", "g", "h", "i", "j", "k", "l", "m",
             "n", "o", "p", "q", "r", "s", "t", "u", "v", "w", "x", "y", "z">>
generate_device_name(index) ==
    "/dev/xvd" \o Letters[2 + (index \div 26)] \o Letters[1 + (index % 26)]

(***************************************************************************)
(* Environment steps.                                                      *)
(***************************************************************************)
\* the provider reports a created volume as available
VolumeBecomesAvailable(v) ==
    /\ volume[v] = "creating"
    /\ volume' = [volume EXCEPT ![v] = "available"]
    /\ UNCHANGED <<storeVars, device, delete_on_term, queue, duplicates,
                   clusterVars, enqueue_tasks, run_tasks, scale_down_tasks,
                   jobs, launches, debug, last>>

\* SQS delivers a message of the queue once more (at-least-once delivery)
Redeliver(i) ==
    /\ i \in 1..Len(queue)
    /\ duplicates < MaxDuplicates
    /\ queue' = Append(queue, queue[i])
    /\ duplicates' = duplicates + 1
    /\ UNCHANGED <<storeVars, volumeVars, clusterVars, enqueue_tasks,
                   run_tasks, scale_down_tasks, jobs, launches, debug, last>>

\* a container instance joins the ECS cluster while the group wants one
HostJoins ==
    /\ asg.DesiredCapacity > 0
    /\ hosts < MaxHosts
    /\ hosts' = hosts + 1
    /\ host_running' = IF hosts = 0 THEN FALSE ELSE host_running
    /\ UNCHANGED <<storeVars, volumeVars, queue, duplicates, asg,
                   enqueue_tasks, run_tasks, scale_down_tasks, jobs, launches,
                   debug, last>>

\* the EC2 instance of the first host reaches the running state
HostRuns ==
    /\ hosts > 0
    /\ ~host_running
    /\ host_running' = TRUE
    /\ UNCHANGED <<storeVars, volumeVars, queue, duplicates, asg, hosts,
                   enqueue_tasks, run_tasks, scale_down_tasks, jobs, launches,
                   debug, last>>

\* the group, asked for no instance, terminates its hosts: attached volumes
\* set to DeleteOnTermination are deleted, the others are detached
HostsTerminate ==
    /\ asg.DesiredCapacity = 0
    /\ hosts > 0
    /\ hosts' = 0
    /\ host_running' = FALSE
    /\ volume' = [v \in Vols |->
                    IF volume[v] = "attached"
                    THEN (IF v \in delete_on_term THEN "deleted" ELSE "available")
                    ELSE volume[v]]
    /\ device' = [v \in Vols |-> "none"]
    /\ delete_on_term' = {}
    /\ UNCHANGED <<storeVars, queue, duplicates, asg, enqueue_tasks,
                   run_tasks, scale_down_tasks, jobs, launches, debug, last>>

\* the image's record is deleted from the store (its account was deleted)
DeleteImage(a) ==
    /\ status[a] # NONE
    /\ status' = [status EXCEPT ![a] = NONE]
    /\ inspection_json' = [inspection_json EXCEPT ![a] = "null"]
    /\ UNCHANGED <<volumeVars, queue, duplicates, clusterVars, enqueue_tasks,
                   run_tasks, scale_down_tasks, jobs, launches, debug, last>>

(***************************************************************************)
(* enqueue_ready_volume(ami_id, volume_id, volume_region)                  *)
(***************************************************************************)
\* the follow-up goes on whatever the state of the volume
check_volume_state_unchecked(volume_state) == TRUE

\* aws.check_volume_state: the task goes on only once the volume is ready
check_volume_state(volume_state) == volume_state = "available"

enqueue_ready_volume(t) ==
    /\ t \in enqueue_tasks
    /\ check_volume_state(volume[t.volume_id])
    /\ queue' = add_messages_to_queue(queue, <<Message(t.ami_id, t.volume_id)>>)
    /\ enqueue_tasks' = enqueue_tasks \ {t}
    /\ UNCHANGED <<storeVars, volumeVars, duplicates, clusterVars, run_tasks,
                   scale_down_tasks, jobs, launches, debug, last>>

(***************************************************************************)
(* scale_down_cluster()                                                    *)
(***************************************************************************)
scale_down_cluster ==
    /\ scale_down_tasks
    /\ asg' = scale_down(asg)
    /\ scale_down_tasks' = FALSE
    /\ UNCHANGED <<storeVars, volumeVars, queue, duplicates, hosts,
                   host_running, enqueue_tasks, run_tasks, jobs, launches,
                   debug, last>>

(***************************************************************************)
(* scale_up_inspection_cluster()                                           *)
(*   scale_ok: aws.scale_up returned (TRUE) or raised ClientError (FALSE)  *)
(***************************************************************************)
NewRunTask(messages) == [messages |-> messages, retries |-> 0]

\* the scaler without its check that the group is scaled down
scale_up_inspection_cluster_unchecked(scale_ok) ==
    LET scaled_down == TRUE
        messages == read_messages_from_queue(queue,
                                             HOUNDIGRADE_AWS_VOLUME_BATCH_SIZE)
        rest == Suffix(queue, Len(messages))
    IN  IF ~scaled_down
        THEN \* quietly exit and let a future run check the scaling
             /\ scale_ok
             /\ last' = Did("scale_up_inspection_cluster", "not_scaled_down",
                            <<>>, <<>>)
             /\ UNCHANGED <<storeVars, volumeVars, queue, duplicates,
                            clusterVars, enqueue_tasks, run_tasks,
                            scale_down_tasks, jobs, launches, debug>>
        ELSE IF Len(messages) = 0
        THEN \* quietly exit and let a future run check for messages
             /\ scale_ok
             /\ last' = Did("scale_up_inspection_cluster", "no_messages",
                            <<>>, <<>>)
             /\ UNCHANGED <<storeVars, volumeVars, queue, duplicates,
                            clusterVars, enqueue_tasks, run_tasks,
                            scale_down_tasks, jobs, launches, debug>>
        ELSE IF ~scale_ok
        THEN \* scale_up failed: requeue the messages and re-raise
             /\ queue' = add_messages_to_queue(rest, messages)
             /\ last' = Did("scale_up_inspection_cluster", "ClientError",
                            messages, <<>>)
             /\ UNCHANGED <<storeVars, volumeVars, duplicates, clusterVars,
                            enqueue_tasks, run_tasks, scale_down_tasks, jobs,
                            launches, debug>>
        ELSE /\ queue' = rest
             /\ asg' = scale_up(asg)
             /\ run_tasks' = Append(run_tasks, NewRunTask(messages))
             /\ last' = Did("scale_up_inspection_cluster", "dispatched",
                            messages, <<>>)
             /\ UNCHANGED <<storeVars, volumeVars, duplicates, hosts,
                            host_running, enqueue_tasks, scale_down_tasks,
                            jobs, launches, debug>>

\* the scaler without the requeue of the messages after a failed scale-up
scale_up_inspection_cluster_dropping(scale_ok) ==
    LET scaled_down == is_scaled_down(asg, hosts)
        messages == read_messages_from_queue(queue,
                                             HOUNDIGRADE_AWS_VOLUME_BATCH_SIZE)
        rest == Suffix(queue, Len(messages))
    IN  IF ~scaled_down
        THEN \* quietly exit and let a future run check the scaling
             /\ scale_ok
             /\ last' = Did("scale_up_inspection_cluster", "not_scaled_down",
                            <<>>, <<>>)
             /\ UNCHANGED <<storeVars, volumeVars, queue, duplicates,
                            clusterVars, enqueue_tasks, run_tasks,
                            scale_down_tasks, jobs, launches, debug>>
        ELSE IF Len(messages) = 0
        THEN \* quietly exit and let a future run check for messages
             /\ scale_ok
             /\ last' = Did("scale_up_inspection_cluster", "no_messages",
                            <<>>, <<>>)
             /\ UNCHANGED <<storeVars, volumeVars, queue, duplicates,
                            clusterVars, enqueue_tasks, run_tasks,
                            scale_down_tasks, jobs, launches, debug>>
        ELSE IF ~scale_ok
        THEN \* scale_up failed: requeue the messages and re-raise
             /\ queue' = rest
             /\ last' = Did("scale_up_inspection_cluster", "ClientError",
                            messages, <<>>)
             /\ UNCHANGED <<storeVars, volumeVars, duplicates, clusterVars,
                            enqueue_tasks, run_tasks, scale_down_tasks, jobs,
                            launches, debug>>
        ELSE /\ queue' = rest
             /\ asg' = scale_up(asg)
             /\ run_tasks' = Append(run_tasks, NewRunTask(messages))
             /\ last' = Did("scale_up_inspection_cluster", "dispatched",
                            messages, <<>>)
             /\ UNCHANGED <<storeVars, volumeVars, duplicates, hosts,
                            host_running, enqueue_tasks, scale_down_tasks,
                            jobs, launches, debug>>

scale_up_inspection_cluster(scale_ok) ==
    LET scaled_down == is_scaled_down(asg, hosts)
        messages == read_messages_from_queue(queue,
                                             HOUNDIGRADE_AWS_VOLUME_BATCH_SIZE)
        rest == Suffix(queue, Len(messages))
    IN  IF ~scaled_down
        THEN \* quietly exit and let a future run check the scaling
             /\ scale_ok
             /\ last' = Did("scale_up_inspection_cluster", "not_scaled_down",
                            <<>>, <<>>)
             /\ UNCHANGED <<storeVars, volumeVars, queue, duplicates,
                            clusterVars, enqueue_tasks, run_tasks,
                            scale_down_tasks, jobs, launches, debug>>
        ELSE IF Len(messages) = 0
        THEN \* quietly exit and let a future run check for messages
             /\ scale_ok
             /\ last' = Did("scale_up_inspection_cluster", "no_messages",
                            <<>>, <<>>)
             /\ UNCHANGED <<storeVars, volumeVars, queue, duplicates,
                            clusterVars, enqueue_tasks, run_tasks,
                            scale_down_tasks, jobs, launches, debug>>
        ELSE IF ~scale_ok
        THEN \* scale_up failed: requeue the messages and re-raise
             /\ queue' = add_messages_to_queue(rest, messages)
             /\ last' = Did("scale_up_inspection_cluster", "ClientError",
                            messages, <<>>)
             /\ UNCHANGED <<storeVars, volumeVars, duplicates, clusterVars,
                            enqueue_tasks, run_tasks, scale_down_tasks, jobs,
                            launches, debug>>
        ELSE /\ queue' = rest
             /\ asg' = scale_up(asg)
             /\ run_tasks' = Append(run_tasks, NewRunTask(messages))
             /\ last' = Did("scale_up_inspection_cluster", "dispatched",
                            messages, <<>>)
             /\ UNCHANGED <<storeVars, volumeVars, duplicates, hosts,
                            host_running, enqueue_tasks, scale_down_tasks,
                            jobs, launches, debug>>

(***************************************************************************)
(* run_inspection_cluster(messages, cloud="aws")                           *)
(***************************************************************************)
\* what volume.attach_to_instance answers: Ok, or a ClientError with its
\* Error.Code and whether its Error.Message contains "marketplace"
AttachOk == [Code |-> "ok", marketplace |-> FALSE]
AttachError(code, mp) == [Code |-> code, marketplace |-> mp]
AttachErrors ==
    {AttachError("OptInRequired", TRUE),
     AttachError("IncorrectInstanceState", FALSE),
     AttachError("VolumeInUse", TRUE)}
AttachAnswers == {AttachOk} \cup AttachErrors

\* the provider's answer to attaching volume v at mount_point: a volume that
\* is not available, or a device name already taken on the host, is refused;
\* otherwise the answer is the input `answer`
attach_to_instance(vol, dev, v, mount_point, answer) ==
    IF vol[v] = "attached" THEN AttachError("VolumeInUse", FALSE)
    ELSE IF vol[v] # "available" THEN AttachError("InvalidVolume.NotFound", FALSE)
    ELSE IF \E w \in Vols : dev[w] = mount_point
         THEN AttachError("InvalidParameterValue", FALSE)
    ELSE answer

\* lines 733-736: the attach error is the marketplace kind
is_marketplace_attach_error(e) ==
    /\ e.Code \in {"OptInRequired", "IncorrectInstanceState"}
    /\ e.marketplace

\* lines 636-660: keep the messages whose image has a record in the store
RECURSIVE relevant_messages(_, _)
relevant_messages(messages, st) ==
    IF messages = <<>> THEN <<>>
    ELSE IF st[Head(messages).ami_id] # NONE
         THEN <<Head(messages)>> \o relevant_messages(Tail(messages), st)
         ELSE relevant_messages(Tail(messages), st)

\* lines 642-643: each kept message's image is saved as INSPECTING
mark_inspecting(relevant, st) ==
    [a \in Amis |->
        IF \E i \in 1..Len(relevant) : relevant[i].ami_id = a
        THEN INSPECTING ELSE st[a]]

\* the command always built in debug mode
initial_task_command_debug(cloud, dbg) == <<"-c", cloud, "--debug">>

\* lines 668-670
initial_task_command(cloud, dbg) ==
    IF dbg THEN <<"-c", cloud, "--debug">> ELSE <<"-c", cloud>>

\* the check without the test for more than one container instance
host_check_first_only(num_instances, running) ==
    IF num_instances = 0 THEN "AwsECSInstanceNotReady"
    ELSE IF ~running THEN "AwsECSInstanceNotReady"
    ELSE "none"

\* lines 677-705: the check for the single running container instance
host_check(num_instances, running) ==
    IF num_instances = 0 THEN "AwsECSInstanceNotReady"
    ELSE IF num_instances > 1 THEN "AwsTooManyECSInstances"
    ELSE IF ~running THEN "AwsECSInstanceNotReady"
    ELSE "none"

\* the loop pass that saves ERROR after every refused attach
attach_volume_all_errors(acc, message, index, answer) ==
    LET ec2_ami_id == message.ami_id
        ec2_volume_id == message.volume_id
        mount_point == generate_device_name(index)
        got == attach_to_instance(acc.volume, acc.device, ec2_volume_id,
                                  mount_point, answer)
    IN  IF got = AttachOk
        THEN [acc EXCEPT
                !.volume[ec2_volume_id] = "attached",
                !.device[ec2_volume_id] = mount_point,
                \* modify_attribute: DeleteOnTermination
                !.delete_on_term = @ \cup {ec2_volume_id},
                !.command = @ \o <<"-t", ec2_ami_id, mount_point>>,
                !.outcomes = Append(@, got)]
        ELSE [acc EXCEPT
                !.status = update_aws_image_status_error(@, ec2_ami_id),
                \* volume.delete(): the provider carries the request out
                !.volume[ec2_volume_id] = "deleted",
                !.device[ec2_volume_id] = "none",
                !.delete_on_term = @ \ {ec2_volume_id},
                !.outcomes = Append(@, got)]

\* lines 710-787: one pass of the attach loop, for the message at 0-based
\* position `index`; acc carries the store, the provider's volumes and the
\* command built so far
attach_volume(acc, message, index, answer) ==
    LET ec2_ami_id == message.ami_id
        ec2_volume_id == message.volume_id
        mount_point == generate_device_name(index)
        got == attach_to_instance(acc.volume, acc.device, ec2_volume_id,
                                  mount_point, answer)
    IN  IF got = AttachOk
        THEN [acc EXCEPT
                !.volume[ec2_volume_id] = "attached",
                !.device[ec2_volume_id] = mount_point,
                \* modify_attribute: DeleteOnTermination
                !.delete_on_term = @ \cup {ec2_volume_id},
                !.command = @ \o <<"-t", ec2_ami_id, mount_point>>,
                !.outcomes = Append(@, got)]
        ELSE [acc EXCEPT
                !.status = IF is_marketplace_attach_error(got)
                           THEN update_aws_image_status_inspected(@, ec2_ami_id)
                           ELSE update_aws_image_status_error(@, ec2_ami_id),
                \* volume.delete(): the provider carries the request out
                !.volume[ec2_volume_id] = "deleted",
                !.device[ec2_volume_id] = "none",
                !.delete_on_term = @ \ {ec2_volume_id},
                !.outcomes = Append(@, got)]

\* line 709: for index, message in enumerate(relevant_messages)
RECURSIVE attach_volumes(_, _, _, _)
attach_volumes(relevant, index, answers, acc) ==
    IF index >= Len(relevant) THEN acc
    ELSE attach_volumes(relevant, index + 1, answers,
                        attach_volume(acc, relevant[index + 1], index,
                                      answers[index + 1]))

\* the task after it raised: retried automatically, up to MaxRetries times
retry_or_fail(tasks, k) ==
    IF tasks[k].retries < MaxRetries
    THEN [tasks EXCEPT ![k].retries = @ + 1]
    ELSE RemoveAt(tasks, k)

\* k: the pending task executed; answers: the provider's answer to each
\* attach request; launch_ok: register_task_definition and run_task return
run_inspection_cluster(k, answers, launch_ok) ==
    /\ k \in 1..Len(run_tasks)
    /\ LET messages == run_tasks[k].messages
           relevant == relevant_messages(messages, status)
           marked == mark_inspecting(relevant, status)
           error == host_check(hosts, host_running)
           start == [status |-> marked, volume |-> volume, device |-> device,
                     delete_on_term |-> delete_on_term,
                     command |-> initial_task_command(CLOUD_TYPE_AWS, debug),
                     outcomes |-> <<>>]
           done == attach_volumes(relevant, 0, answers, start)
           ran == Did("run_inspection_cluster", "none", messages, <<>>)
       IN  IF relevant = <<>>
           THEN \* nothing needs inspection: scale the cluster down
                /\ launch_ok
                /\ scale_down_tasks' = TRUE
                /\ run_tasks' = RemoveAt(run_tasks, k)
                /\ last' = [ran EXCEPT !.result = "nothing_relevant"]
                /\ UNCHANGED <<storeVars, volumeVars, queue, duplicates,
                               clusterVars, enqueue_tasks, jobs, launches,
                               debug>>
           ELSE IF error # "none"
           THEN \* zero hosts, several hosts, or a host that is not running
                /\ launch_ok
                /\ answers = [i \in 1..Len(relevant) |-> AttachOk]
                /\ status' = marked
                /\ run_tasks' = retry_or_fail(run_tasks, k)
                /\ last' = [ran EXCEPT !.result = error]
                /\ UNCHANGED <<inspection_json, volumeVars, queue, duplicates,
                               clusterVars, enqueue_tasks, scale_down_tasks,
                               jobs, launches, debug>>
           ELSE /\ status' = done.status
                /\ volume' = done.volume
                /\ device' = done.device
                /\ delete_on_term' = done.delete_on_term
                /\ IF "-t" \notin Range(done.command)
                   THEN \* no targets left to inspect
                        /\ launch_ok
                        /\ run_tasks' = RemoveAt(run_tasks, k)
                        /\ last' = [ran EXCEPT !.result = "no_targets",
                                               !.outcomes = done.outcomes,
                                               !.command = done.command]
                        /\ UNCHANGED <<jobs, launches>>
                   ELSE IF launch_ok
                   THEN /\ jobs' = Append(jobs, done.command)
                        /\ launches' = Append(launches, done.command)
                        /\ run_tasks' = RemoveAt(run_tasks, k)
                        /\ last' = [ran EXCEPT !.result = "launched",
                                               !.outcomes = done.outcomes,
                                               !.command = done.command]
                   ELSE /\ run_tasks' = retry_or_fail(run_tasks, k)
                        /\ last' = [ran EXCEPT !.result = "ClientError",
                                               !.outcomes = done.outcomes,
                                               !.command = done.command]
                        /\ UNCHANGED <<jobs, launches>>
                /\ UNCHANGED <<inspection_json, queue, duplicates,
                               clusterVars, enqueue_tasks, scale_down_tasks,
                               debug>>

(***************************************************************************)
(* persist_aws_inspection_cluster_results(inspection_results)              *)
(***************************************************************************)
\* the image ids a launched command targets: the word after each "-t"
RECURSIVE command_targets(_)
command_targets(command) ==
    IF Len(command) < 3 THEN <<>>
    ELSE IF Head(command) = "-t"
         THEN <<command[2]>> \o command_targets(Tail(Tail(Tail(command))))
         ELSE command_targets(Tail(command))

\* the payloads houndigrade can send for a command: {"images": {id: details}}
\* with an entry per target, or a payload without the "images" key
ResultsFor(command) ==
    LET targets == command_targets(command)
    IN  {[has_images |-> TRUE,
          images |-> [i \in 1..Len(targets) |->
                        [image_id |-> targets[i], details |-> d[i]]]] :
            d \in [1..Len(targets) -> Payloads]}
        \cup {[has_images |-> FALSE, images |-> <<>>]}

\* the loop that gives up at the first id without a record
RECURSIVE persist_images_stopping(_, _)
persist_images_stopping(images, store) ==
    IF images = <<>> THEN store
    ELSE IF store.status[Head(images).image_id] = NONE THEN store
    ELSE LET image_id == Head(images).image_id
             image_json == Head(images).details
             saved == [status |-> update_aws_image_status_inspected(
                                      store.status, image_id),
                       inspection_json |-> update_aws_image_inspection_json(
                                      store.inspection_json, store.status,
                                      image_id, image_json)]
         IN persist_images_stopping(Tail(images), saved)

\* lines 885-897: the loop over images.items()
RECURSIVE persist_images(_, _)
persist_images(images, store) ==
    IF images = <<>> THEN store
    ELSE LET image_id == Head(images).image_id
             image_json == Head(images).details
             saved == [status |-> update_aws_image_status_inspected(
                                      store.status, image_id),
                       inspection_json |-> update_aws_image_inspection_json(
                                      store.inspection_json, store.status,
                                      image_id, image_json)]
         IN persist_images(Tail(images), saved)

\* lines 886-889: save_success of each entry, in the order of the loop
save_successes(images, st) ==
    [i \in 1..Len(images) |->
        [Code |-> IF st[images[i].image_id] # NONE THEN "saved" ELSE "no record",
         marketplace |-> FALSE]]

\* the collector taking a payload without "images" for one with no entry
persist_aws_inspection_cluster_results_lenient(inspection_results, store) ==
    [store |-> persist_images(inspection_results.images, store),
     raised |-> "none"]

\* lines 879-897: the store after the call, and what it raised
persist_aws_inspection_cluster_results(inspection_results, store) ==
    IF ~inspection_results.has_images
    THEN [store |-> store, raised |-> "InvalidHoundigradeJsonFormat"]
    ELSE [store |-> persist_images(inspection_results.images, store),
          raised |-> "none"]

\* the results of scan job j arrive and are persisted; once results are
\* persisted the cluster is asked to scale down
persist_inspection_cluster_results_task(j, inspection_results) ==
    /\ j \in 1..Len(jobs)
    /\ inspection_results \in ResultsFor(jobs[j])
    /\ LET got == persist_aws_inspection_cluster_results(
                      inspection_results,
                      [status |-> status, inspection_json |-> inspection_json])
       IN  /\ status' = got.store.status
           /\ inspection_json' = got.store.inspection_json
           /\ scale_down_tasks' = (scale_down_tasks \/ got.raised = "none")
           /\ last' = Did("persist_aws_inspection_cluster_results",
                          got.raised, inspection_results.images,
                          save_successes(inspection_results.images, status))
    /\ jobs' = RemoveAt(jobs, j)
    /\ UNCHANGED <<volumeVars, queue, duplicates, clusterVars, enqueue_tasks,
                   run_tasks, launches, debug>>

(***************************************************************************)
(* The specification.                                                      *)
(***************************************************************************)
Next ==
    \/ (\E v \in Vols : VolumeBecomesAvailable(v)) /\ UNCHANGED besideVars
    \/ (\E i \in 1..Len(queue) : Redeliver(i)) /\ UNCHANGED besideVars
    \/ HostJoins /\ UNCHANGED besideVars
    \/ HostRuns /\ UNCHANGED besideVars
    \/ HostsTerminate /\ UNCHANGED besideVars
    \/ (\E a \in Amis : DeleteImage(a)) /\ UNCHANGED besideVars
    \/ (\E t \in enqueue_tasks : enqueue_ready_volume(t))
          /\ UNCHANGED besideVars
    \/ scale_down_cluster /\ UNCHANGED besideVars
    \/ (\E scale_ok \in BOOLEAN : scale_up_inspection_cluster(scale_ok))
          /\ UNCHANGED besideVars
    \/ (\E k \in 1..Len(run_tasks), launch_ok \in BOOLEAN :
         \E answers \in [1..Len(relevant_messages(run_tasks[k].messages,
                                                   status)) -> AttachAnswers] :
            run_inspection_cluster(k, answers, launch_ok))
          /\ UNCHANGED besideVars
    \/ (\E j \in 1..Len(jobs) :
         \E inspection_results \in ResultsFor(jobs[j]) :
            persist_inspection_cluster_results_task(j, inspection_results))
          /\ UNCHANGED besideVars

Spec == Init /\ [][Next]_vars

(***************************************************************************)
(* Steps of the tasks, whatever their inputs.                              *)
(***************************************************************************)
ScaleUpStep == \E scale_ok \in BOOLEAN : scale_up_inspection_cluster(scale_ok)

RunStep ==
    \E k \in 1..Len(run_tasks), launch_ok \in BOOLEAN :
      \E answers \in [1..Len(relevant_messages(run_tasks[k].messages,
                                                status)) -> AttachAnswers] :
         run_inspection_cluster(k, answers, launch_ok)

\* every step of run_inspection_cluster takes its task off the pending tasks
\* or counts a retry of it; every step of the collector takes a job's results
RunTaskTaken == run_tasks' # run_tasks /\ Len(run_tasks') <= Len(run_tasks)
ResultsTaken == Len(jobs') < Len(jobs)

PersistStep ==
    \E j \in 1..Len(jobs) :
      \E inspection_results \in ResultsFor(jobs[j]) :
         persist_inspection_cluster_results_task(j, inspection_results)

(***************************************************************************)
(* What a run_inspection_cluster step works on.                            *)
(***************************************************************************)
HasRecord(m) == status[m.ami_id] # NONE
\* the pending task a step of run_inspection_cluster executes
Taken ==
    CHOOSE k \in 1..Len(run_tasks) :
       \/ run_tasks' = RemoveAt(run_tasks, k)
       \/ run_tasks' = [run_tasks EXCEPT ![k].retries = @ + 1]
\* the messages of that task whose image has a record
Kept == SelectSeq(run_tasks[Taken].messages, HasRecord)
HostReady == hosts = 1 /\ host_running
IsMarketplaceKind(got) ==
    /\ got.marketplace
    /\ got.Code = "OptInRequired" \/ got.Code = "IncorrectInstanceState"
Oks(outcomes) == {i \in 1..Len(outcomes) : outcomes[i].Code = "ok"}

(***************************************************************************)
(* C1: every status change of an existing image follows                    *)
(* PENDING->PREPARING->INSPECTING->INSPECTED, any->ERROR or                *)
(* PENDING->UNAVAILABLE, and no task changes the status of an image that   *)
(* is already INSPECTED.  One task execution may save a status several     *)
(* times, so a step is held against the paths of these transitions.        *)
(***************************************************************************)
AllowedTransitions ==
    {<<PENDING, PREPARING>>, <<PREPARING, INSPECTING>>,
     <<INSPECTING, INSPECTED>>, <<PENDING, UNAVAILABLE>>}
    \cup {<<s, ERROR>> : s \in Statuses \ {INSPECTED, ERROR}}

\* the statuses reachable from `from` in one or more allowed transitions
RECURSIVE ReachableIn(_, _)
ReachableIn(reached, n) ==
    IF n = 0 THEN reached
    ELSE ReachableIn(
           reached \cup {t \in Statuses :
                           \E s \in reached : <<s, t>> \in AllowedTransitions},
           n - 1)
AllowedPath(from, to) ==
    to \in ReachableIn({t \in Statuses : <<from, t>> \in AllowedTransitions},
                       Cardinality(Statuses))

C1_StatusTransitions ==
    [][\A a \in Amis :
         (status[a] # NONE /\ status'[a] # NONE /\ status'[a] # status[a])
            => /\ AllowedPath(status[a], status'[a])
               /\ status[a] # INSPECTED]_vars

(***************************************************************************)
(* C2: run_inspection_cluster keeps a message, and marks its image         *)
(* INSPECTING, only if the image has a record and is not already INSPECTED *)
(* or ERROR; the image of any other message keeps its status and its       *)
(* volume is not attached; when no message is kept, a scale-down is        *)
(* requested and nothing else is done.                                     *)
(***************************************************************************)
PastInspection(a) == status[a] \in {NONE, INSPECTED, ERROR}

C2_OnlyUninspectedKept ==
    [][RunTaskTaken =>
            LET messages == run_tasks[Taken].messages
            IN  /\ \A i \in 1..Len(messages) :
                     PastInspection(messages[i].ami_id) =>
                       /\ status'[messages[i].ami_id] = status[messages[i].ami_id]
                       /\ volume'[messages[i].volume_id]
                            = volume[messages[i].volume_id]
                /\ (\A i \in 1..Len(messages) : PastInspection(messages[i].ami_id))
                     => /\ scale_down_tasks'
                        /\ UNCHANGED <<storeVars, volumeVars, jobs, launches>>
      ]_vars

(***************************************************************************)
(* C3: scale_up_inspection_cluster issues no scale-up request, reads no    *)
(* queue message and dispatches nothing while the group is not fully at    *)
(* zero (instance count, MinSize, MaxSize and DesiredCapacity all 0); and  *)
(* when the queue read returns no message it neither scales up nor         *)
(* schedules run_inspection_cluster: no empty batch is ever dispatched.    *)
(***************************************************************************)
FullyAtZero ==
    /\ hosts = 0
    /\ asg.MinSize = 0 /\ asg.MaxSize = 0 /\ asg.DesiredCapacity = 0

ScaleUpRequested(l) ==
    /\ l.op = "scale_up_inspection_cluster"
    /\ l.result \in {"ClientError", "dispatched"}

C3_ScaleUpOnlyFromZero ==
    [][ScaleUpStep =>
         /\ ~FullyAtZero =>
              /\ ~ScaleUpRequested(last')
              /\ UNCHANGED <<asg, queue, run_tasks>>
         /\ queue = <<>> =>
              /\ ~ScaleUpRequested(last')
              /\ UNCHANGED <<asg, queue, run_tasks>>
         /\ \A k \in 1..Len(run_tasks') : run_tasks'[k].messages # <<>>
      ]_vars

\* the scaler has run while the group was not at zero and messages waited
C3_Witness ==
    /\ last.op = "scale_up_inspection_cluster"
    /\ last.result = "not_scaled_down"
    /\ queue # <<>>

(***************************************************************************)
(* C4: when the scale-up request fails, every message pulled from the      *)
(* queue in that run is back on the queue, no batch is dispatched and the  *)
(* failure is re-raised; in every run each pulled message is either back   *)
(* on the queue or in the batch handed to run_inspection_cluster.          *)
(***************************************************************************)
Count(seq, m) == Cardinality({i \in 1..Len(seq) : seq[i] = m})

\* the batch a step handed to run_inspection_cluster, if any
Dispatched ==
    IF Len(run_tasks') > Len(run_tasks)
    THEN run_tasks'[Len(run_tasks')].messages ELSE <<>>

C4_PulledMessagesKept ==
    [][\A scale_ok \in BOOLEAN :
         scale_up_inspection_cluster(scale_ok) =>
           /\ \A m \in Messages :
                Count(queue, m) = Count(queue', m) + Count(Dispatched, m)
           /\ ~scale_ok =>
                /\ Dispatched = <<>>
                /\ UNCHANGED <<asg, run_tasks>>
                /\ last'.result = "ClientError"
      ]_vars

\* a scale-up has failed and the pulled messages are on the queue again
C4_Witness ==
    /\ last.op = "scale_up_inspection_cluster"
    /\ last.result = "ClientError"
    /\ last.arg # <<>>
    /\ \A i \in 1..Len(last.arg) : Count(queue, last.arg[i]) >= Count(last.arg, last.arg[i])
    /\ run_tasks = <<>>

(***************************************************************************)
(* C5: a ready-volume message delivered more than once is benign: no       *)
(* volume is inspected by more than one launched scan job, and a volume    *)
(* whose attach succeeded stays attached with its image INSPECTING, it is  *)
(* not turned into ERROR or deleted by the duplicate.                      *)
(***************************************************************************)
TargetsOf(command) == Range(command_targets(command))

C5_RedeliveryBenign ==
    [][RunTaskTaken =>
            /\ \A i \in Oks(last'.outcomes) :
                 /\ volume'[Kept[i].volume_id] = "attached"
                 /\ status'[Kept[i].ami_id] = INSPECTING
            /\ \A i, j \in 1..Len(launches') :
                 (i # j) => TargetsOf(launches'[i]) \cap TargetsOf(launches'[j]) = {}
      ]_vars

(***************************************************************************)
(* C6: run_inspection_cluster is idempotent per batch: executed again with *)
(* the same batch after an execution that attached volumes, it leaves each *)
(* attached volume attached (none is attached again or deleted), launches  *)
(* nothing more for them and leaves the status of their images as it was.  *)
(***************************************************************************)
C6_IdempotentPerBatch ==
    [][(RunTaskTaken /\ run_tasks[Taken].retries > 0) =>
            \A i \in 1..Len(run_tasks[Taken].messages) :
              LET m == run_tasks[Taken].messages[i]
              IN  volume[m.volume_id] = "attached" =>
                    /\ volume'[m.volume_id] = "attached"
                    /\ device'[m.volume_id] = device[m.volume_id]
                    /\ status'[m.ami_id] = status[m.ami_id]
      ]_vars

(***************************************************************************)
(* C7: when the cluster reports zero container instances, more than one,   *)
(* or one whose EC2 instance is not running, run_inspection_cluster raises *)
(* AwsECSInstanceNotReady / AwsTooManyECSInstances, attaches no volume and *)
(* registers and launches no scan job.                                     *)
(***************************************************************************)
C7_HostCountFatal ==
    [][(RunTaskTaken /\ Kept # <<>> /\ ~HostReady) =>
            /\ last'.result = IF hosts > 1 THEN "AwsTooManyECSInstances"
                              ELSE "AwsECSInstanceNotReady"
            /\ last'.outcomes = <<>>
            /\ UNCHANGED <<volumeVars, jobs, launches>>
      ]_vars

\* the dispatcher has met a cluster with more than one container instance
C7_Witness ==
    /\ last.op = "run_inspection_cluster"
    /\ last.result = "AwsTooManyECSInstances"
    /\ hosts > 1
    /\ \E a \in Amis : status[a] = INSPECTING

(***************************************************************************)
(* C8: in every pass of the attach loop, a refused attach whose error code *)
(* is OptInRequired or IncorrectInstanceState and whose message mentions   *)
(* marketplace saves the image as INSPECTED, any other refused attach      *)
(* saves it as ERROR; in both cases the volume is deleted and not added to *)
(* the command, and the loop goes on with the remaining volumes.  A volume *)
(* whose attach succeeds is set to DeleteOnTermination and is added to the *)
(* command.                                                                *)
(***************************************************************************)
\* the loop's state before its first pass
LoopStart ==
    [status |-> [a \in Amis |->
                    IF \E i \in 1..Len(Kept) : Kept[i].ami_id = a
                    THEN INSPECTING ELSE status[a]],
     volume |-> volume, device |-> device, delete_on_term |-> delete_on_term,
     command |-> initial_task_command(CLOUD_TYPE_AWS, debug),
     outcomes |-> <<>>]
\* pass i of the loop, the provider answering as it did in the step
PassOf(before, i) ==
    attach_volume(before, Kept[i], i - 1, last'.outcomes[i])

\* what pass i must have done, given the loop's state before and after it
PassHandled(before, after, i) ==
    LET a == Kept[i].ami_id
        v == Kept[i].volume_id
        got == last'.outcomes[i]
    IN  IF got.Code = "ok"
        THEN /\ after.volume[v] = "attached"
             /\ v \in after.delete_on_term
             /\ after.command = before.command \o <<"-t", a, after.device[v]>>
             /\ after.status = before.status
        ELSE /\ after.status =
                  [before.status EXCEPT ![a] =
                     IF IsMarketplaceKind(got) THEN INSPECTED ELSE ERROR]
             /\ after.volume[v] = "deleted"
             /\ after.command = before.command

\* every pass from the i-th on did so, and the step ends in the loop's
\* final state
RECURSIVE LoopHandled(_, _)
LoopHandled(before, i) ==
    IF i > Len(Kept)
    THEN /\ status' = before.status
         /\ volume' = before.volume
         /\ delete_on_term' = before.delete_on_term
         /\ last'.command = before.command
    ELSE \E after \in {PassOf(before, i)} :
            /\ PassHandled(before, after, i)
            /\ LoopHandled(after, i + 1)

RECURSIVE ExpectedTargets(_, _, _)
ExpectedTargets(kept, outcomes, i) ==
    IF i > Len(kept) THEN <<>>
    ELSE (IF outcomes[i].Code = "ok"
          THEN <<"-t", kept[i].ami_id, generate_device_name(i - 1)>>
          ELSE <<>>) \o ExpectedTargets(kept, outcomes, i + 1)

ExpectedCommand(kept, outcomes) ==
    (IF debug THEN <<"-c", "aws", "--debug">> ELSE <<"-c", "aws">>)
      \o ExpectedTargets(kept, outcomes, 1)

C10_PersistResults ==
    [][ResultsTaken => \A j \in 1..Len(jobs) :
        \A inspection_results \in ResultsFor(jobs[j]) :
          (persist_inspection_cluster_results_task(j, inspection_results)
             /\ inspection_results.has_images) =>
            /\ last'.result = "none"
            /\ \A a \in Amis :
                 IF status[a] # NONE
                    /\ \E i \in 1..Len(inspection_results.images) :
                          inspection_results.images[i].image_id = a
                 THEN /\ status'[a] = INSPECTED
                      /\ \E i \in 1..Len(inspection_results.images) :
                           /\ inspection_results.images[i].image_id = a
                           /\ inspection_json'[a]
                                = inspection_results.images[i].details
                 ELSE /\ status'[a] = status[a]
                      /\ inspection_json'[a] = inspection_json[a]
      ]_vars

\* results were persisted for a payload naming an image without a record
\* before an image with one
C10_Witness ==
    /\ last.op = "persist_aws_inspection_cluster_results"
    /\ last.result = "none"
    /\ Len(last.arg) = 2
    /\ last.outcomes[1].Code = "no record"
    /\ last.outcomes[2].Code = "saved"
    /\ status[last.arg[1].image_id] = NONE
    /\ status[last.arg[2].image_id] = INSPECTED
    /\ inspection_json[last.arg[2].image_id] = last.arg[2].details

(***************************************************************************)
(* Tag resolution: _extract_ami_ids_by_tag_change(ami_tag_events, tag),    *)
(* applied to the tag events received so far.                              *)
(***************************************************************************)
\* util.aws.RHEL_TAG, util.aws.OPENSHIFT_TAG
RHEL_TAG == "cloudigrade-rhel-present"
OPENSHIFT_TAG == "cloudigrade-ocp-present"
Tags == {RHEL_TAG, OPENSHIFT_TAG}
\* the values of CloudTrailImageTagEvent.occurred_at
OccurredAt == {1, 2, 3}
\* CloudTrailImageTagEvent
TagEvents ==
    [ec2_ami_id : Amis, tag : Tags, exists : BOOLEAN, occurred_at : OccurredAt]

\* itertools.groupby(events, key=ec2_ami_id): the runs of consecutive events
\* that have the same image id, in order
RECURSIVE groupby(_)
groupby(events) ==
    IF events = <<>> THEN <<>>
    ELSE LET rest == groupby(Tail(events))
         IN  IF rest # <<>> /\ Head(rest)[1].ec2_ami_id = Head(events).ec2_ami_id
             THEN <<(<<Head(events)>> \o Head(rest))>> \o Tail(rest)
             ELSE <<(<<Head(events)>>)>> \o rest

\* itertools.filterfalse(lambda e: e.tag != tag, events_info)
filterfalse(events, tag) ==
    LET keeps(e) == e.tag = tag IN SelectSeq(events, keeps)

\* insertion of e into a list sorted by occurred_at, after the events that
\* are not later than it (sorted() is stable)
RECURSIVE insort(_, _)
insort(ordered, e) ==
    IF ordered = <<>> THEN <<e>>
    ELSE IF ordered[Len(ordered)].occurred_at <= e.occurred_at
         THEN Append(ordered, e)
         ELSE Append(insort(SubSeq(ordered, 1, Len(ordered) - 1), e),
                     ordered[Len(ordered)])

\* the events left in the order they were received
sorted_as_received(events) == events

\* sorted(events, key=lambda e: e.occurred_at)
RECURSIVE sorted(_)
sorted(events) ==
    IF events = <<>> THEN <<>>
    ELSE insort(sorted(SubSeq(events, 1, Len(events) - 1)),
                events[Len(events)])

\* ordered_events[::-1]
Reversed(s) == [i \in 1..Len(s) |-> s[Len(s) + 1 - i]]

\* lines 1466-1471: the loop over the reversed events of one group
RECURSIVE tag_changes_of_group(_, _, _)
tag_changes_of_group(acc, ec2_ami_id, events) ==
    IF events = <<>> THEN acc
    ELSE LET event == Head(events)
             next ==
               IF ec2_ami_id \notin acc.tagged /\ ec2_ami_id \notin acc.untagged
               THEN IF event.exists
                    THEN [acc EXCEPT !.tagged = @ \cup {ec2_ami_id}]
                    ELSE [acc EXCEPT !.untagged = @ \cup {ec2_ami_id}]
               ELSE acc
         IN  tag_changes_of_group(next, ec2_ami_id, Tail(events))

\* lines 1459-1471: the loop over the groups
RECURSIVE tag_changes_of_groups(_, _, _)
tag_changes_of_groups(acc, groups, tag) ==
    IF groups = <<>> THEN acc
    ELSE LET ec2_ami_id == Head(groups)[1].ec2_ami_id
             ordered_events == sorted(filterfalse(Head(groups), tag))
         IN  tag_changes_of_groups(
               tag_changes_of_group(acc, ec2_ami_id, Reversed(ordered_events)),
               Tail(groups), tag)

_extract_ami_ids_by_tag_change(events, tag) ==
    tag_changes_of_groups([tag |-> tag, tagged |-> {}, untagged |-> {}],
                          groupby(events), tag)

\* everything but the variables of tag resolution
notTagVars ==
    <<pipelineVars, analyzerVars, stagingVars, describeVars, authVars,
      scalerVars, callVars>>

\* a tag event is extracted from a CloudTrail record
ReceiveTagEvent(e) ==
    /\ tag_change = NoTagChange
    /\ Len(ami_tag_events) < MaxTagEvents
    /\ ami_tag_events' = Append(ami_tag_events, e)
    /\ UNCHANGED <<tag_change, notTagVars>>

\* lines 1290-1304: the tag changes are extracted for one tag
ExtractTagChange(tag) ==
    /\ tag_change = NoTagChange
    /\ tag_change' = _extract_ami_ids_by_tag_change(ami_tag_events, tag)
    /\ UNCHANGED <<ami_tag_events, notTagVars>>

TagInit == Init /\ ~debug

TagNext ==
    \/ \E e \in TagEvents : ReceiveTagEvent(e)
    \/ \E tag \in Tags : ExtractTagChange(tag)

SpecTags == TagInit /\ [][TagNext]_vars

(***************************************************************************)
(* Tag resolution: what the claims speak of.                               *)
(***************************************************************************)
Extracted == tag_change.tag # "none"
\* the received events of image a for the tag that was extracted
EventsFor(a) ==
    LET about(e) == e.ec2_ami_id = a /\ e.tag = tag_change.tag
    IN  SelectSeq(ami_tag_events, about)
\* all received events are about one image
OneImage ==
    \A i, j \in 1..Len(ami_tag_events) :
       ami_tag_events[i].ec2_ami_id = ami_tag_events[j].ec2_ami_id
\* the event received last
LastReceived(events) == events[Len(events)]
\* the event that occurred last, the one received last among several that
\* occurred at the same time
LastOccurred(events) ==
    events[CHOOSE i \in 1..Len(events) :
             \A j \in 1..Len(events) :
                \/ events[j].occurred_at < events[i].occurred_at
                \/ events[j].occurred_at = events[i].occurred_at /\ j <= i]

(***************************************************************************)
(* C13 (as stated): for the events of one image and one tag the image is   *)
(* classified by the event received last: tagged when it is a creation,    *)
(* untagged when it is a deletion; arrival order alone defines the latest. *)
(***************************************************************************)
C13_LastReceivedWins ==
    (Extracted /\ OneImage) =>
       \A a \in Amis :
          EventsFor(a) # <<>> =>
             /\ a \in tag_change.tagged <=> LastReceived(EventsFor(a)).exists
             /\ a \in tag_change.untagged <=> ~LastReceived(EventsFor(a)).exists

(***************************************************************************)
(* C13 (amended): for the events of one image and one tag the image is     *)
(* classified by the event with the latest occurred_at, and among events   *)
(* of the same occurred_at by the one received last.                       *)
(***************************************************************************)
C13_LastOccurredWins ==
    (Extracted /\ OneImage) =>
       \A a \in Amis :
          EventsFor(a) # <<>> =>
             /\ a \in tag_change.tagged <=> LastOccurred(EventsFor(a)).exists
             /\ a \in tag_change.untagged <=> ~LastOccurred(EventsFor(a)).exists

\* a creation was received before a deletion that occurred earlier, and the
\* image was classified tagged
C13_Witness ==
    /\ Extracted
    /\ Len(ami_tag_events) = 2
    /\ OneImage
    /\ \A i \in 1..2 : ami_tag_events[i].tag = tag_change.tag
    /\ ami_tag_events[1].exists /\ ~ami_tag_events[2].exists
    /\ ami_tag_events[1].occurred_at > ami_tag_events[2].occurred_at
    /\ tag_change.tagged = {ami_tag_events[1].ec2_ami_id}
    /\ tag_change.untagged = {}

(***************************************************************************)
(* C14: for any list of tag events, of several images in any interleaving, *)
(* an image is in the tagged set iff its most recent change of the tag is  *)
(* a creation, in the untagged set iff it is a deletion, in neither iff it *)
(* has no event for the tag, and never in both.                            *)
(***************************************************************************)
C14_LatestChangePerImage ==
    Extracted =>
       \A a \in Amis :
          /\ a \in tag_change.tagged
               <=> (EventsFor(a) # <<>> /\ LastOccurred(EventsFor(a)).exists)
          /\ a \in tag_change.untagged
               <=> (EventsFor(a) # <<>> /\ ~LastOccurred(EventsFor(a)).exists)
          /\ ~(a \in tag_change.tagged /\ a \in tag_change.untagged)

(***************************************************************************)
(* C11: for a payload without the "images" key,                            *)
(* persist_aws_inspection_cluster_results raises                           *)
(* InvalidHoundigradeJsonFormat and changes no image's status or payload.  *)
(***************************************************************************)
C11_MissingImagesRejected ==
    [][ResultsTaken => \A j \in 1..Len(jobs) :
        \A inspection_results \in ResultsFor(jobs[j]) :
          (persist_inspection_cluster_results_task(j, inspection_results)
             /\ ~inspection_results.has_images) =>
            /\ last'.result = "InvalidHoundigradeJsonFormat"
            /\ UNCHANGED storeVars
      ]_vars

\* a payload without "images" was rejected while an image awaited its results
C11_Witness ==
    /\ last.op = "persist_aws_inspection_cluster_results"
    /\ last.result = "InvalidHoundigradeJsonFormat"
    /\ \E a \in Amis : status[a] = INSPECTING

(***************************************************************************)
(* The CloudTrail analyzer: analyze_log, _process_cloudtrail_message,      *)
(* _load_missing_ami_data and _save_cloudtrail_activity, one feed message  *)
(* at a time, beside other tasks that create images.                       *)
(***************************************************************************)
\* the account and region of the events of each feed message
AccountArnOf == [m \in FeedMessages |-> IF m = "msg-1" THEN "arn-1" ELSE "arn-2"]
RegionOf ==
    [m \in FeedMessages |-> IF m = "msg-1" THEN "us-east-1" ELSE "us-west-2"]
\* what aws.describe_images answers for an image id: an image to inspect, an
\* image that needs no inspection, or nothing
DescribeAnswers == {"pending", "inspected", "missing"}

\* everything but the variables of the analyzer and the store
notAnalyzerVars ==
    <<inspection_json, volumeVars, queue, duplicates, clusterVars,
      enqueue_tasks, run_tasks, scale_down_tasks, jobs, launches, debug, last,
      tagVars, stagingVars, describeVars, authVars, scalerVars, callVars>>

\* the images in the order a dict of them is walked
RECURSIVE SetToSeq(_)
SetToSeq(set) ==
    IF set = {} THEN <<>>
    ELSE LET a == CHOOSE x \in set : \A y \in set : x = "ami-1" \/ y # "ami-1"
         IN  <<a>> \o SetToSeq(set \ {a})

\* what the open transaction reads: its own writes over the committed store
visible(st, tx) == [a \in Amis |-> IF tx[a] # NONE THEN tx[a] ELSE st[a]]

\* lines 1149-1197: the images of the message the store does not know are
\* described at the provider, which answers for some of them
_load_missing_ami_data(m, seen_ami_ids, st, answer) ==
    LET known_ami_ids == {a \in seen_ami_ids : st[a] # NONE}
        new_ami_ids == seen_ami_ids \ known_ami_ids
    IN  [a \in Amis |->
           IF a \in new_ami_ids /\ answer[a] # "missing"
           THEN [kind |-> answer[a],
                 found_by_account_arn |-> AccountArnOf[m],
                 found_in_region |-> RegionOf[m]]
           ELSE NotDescribed]

\* save_new_aws_machine_image: creates the image unless one with the id
\* exists; new tells which
save_new_aws_machine_image(seen, ec2_ami_id, kind) ==
    IF seen[ec2_ami_id] # NONE
    THEN [status |-> seen[ec2_ami_id], new |-> FALSE]
    ELSE [status |-> IF kind = "inspected" THEN INSPECTED ELSE PENDING,
          new |-> TRUE]

\* a loop that takes every image it saved for new, the ones that existed too
RECURSIVE save_new_images_ignoring_new(_, _, _, _)
save_new_images_ignoring_new(acc, described_images, ids, st) ==
    IF ids = <<>> THEN acc
    ELSE LET ami_id == Head(ids)
             saved == save_new_aws_machine_image(
                          visible(st, acc.tx), ami_id,
                          described_images[ami_id].kind)
             next ==
               [tx |-> IF saved.new
                       THEN [acc.tx EXCEPT ![ami_id] = saved.status]
                       ELSE acc.tx,
                new_images |-> IF saved.status # INSPECTED
                               THEN acc.new_images \cup {ami_id}
                               ELSE acc.new_images]
         IN  save_new_images_ignoring_new(next, described_images, Tail(ids),
                                          st)

\* lines 1314-1340: "Create only the new images"
RECURSIVE save_new_images(_, _, _, _)
save_new_images(acc, described_images, ids, st) ==
    IF ids = <<>> THEN acc
    ELSE LET ami_id == Head(ids)
             saved == save_new_aws_machine_image(
                          visible(st, acc.tx), ami_id,
                          described_images[ami_id].kind)
             next ==
               [tx |-> IF saved.new
                       THEN [acc.tx EXCEPT ![ami_id] = saved.status]
                       ELSE acc.tx,
                new_images |-> IF saved.new /\ saved.status # INSPECTED
                               THEN acc.new_images \cup {ami_id}
                               ELSE acc.new_images]
         IN  save_new_images(next, described_images, Tail(ids), st)

\* the placeholders are worked out without asking the store
unavailable_ami_ids_ignoring_known(seen_ami_ids, described_images, seen) ==
    seen_ami_ids \ {a \in Amis : described_images[a].kind # "none"}

\* lines 1342-1368: the ids referenced but neither described nor known
unavailable_ami_ids(seen_ami_ids, described_images, seen) ==
    LET described_ami_ids == {a \in Amis : described_images[a].kind # "none"}
        known_ami_ids ==
            {a \in seen_ami_ids \ described_ami_ids : seen[a] # NONE}
    IN  (seen_ami_ids \ described_ami_ids) \ known_ami_ids

\* the analyzer goes on with the next message of the cycle
NextMessage(a) ==
    [a EXCEPT !.pc = "next", !.message = "none",
              !.described = [x \in Amis |-> NotDescribed],
              !.tx = [x \in Amis |-> NONE],
              !.new_images = {}, !.unavailable = {}]

\* a failure that ends the cycle
process_failed_ending_cycle(a, raised) ==
    [NextMessage(a) EXCEPT !.failures = Append(@, a.message),
                           !.raised = raised, !.pending = {}]

\* lines 907-924 when processing raised or returned False: the message is
\* left on the queue
process_failed(a, raised) ==
    [NextMessage(a) EXCEPT !.failures = Append(@, a.message),
                           !.raised = raised]

\* a transaction that keeps what it wrote although it is left by an exception
transaction_rollback_keeping(st, tx) == visible(st, tx)

\* transaction.atomic left by an exception: nothing it wrote is kept
transaction_rollback(st, tx) == st

\* transaction.atomic left normally: what it wrote is committed
transaction_commit(st, tx) == visible(st, tx)

\* a CloudTrail log lands on the queue: message m, referring to some images
FeedDelivers(m, seen_ami_ids) ==
    /\ body[m] = {}
    /\ seen_ami_ids # {}
    /\ body' = [body EXCEPT ![m] = seen_ami_ids]
    /\ feed' = feed \cup {m}
    /\ UNCHANGED <<status, an, starts, other_creates, notAnalyzerVars>>

\* another task (the initial describe, another analyzer) creates an image
OtherTaskCreates(a, st) ==
    /\ other_creates < MaxOtherCreates
    /\ status[a] = NONE
    /\ an.tx[a] = NONE
    /\ status' = [status EXCEPT ![a] = st]
    /\ other_creates' = other_creates + 1
    /\ UNCHANGED <<feed, body, an, starts, notAnalyzerVars>>

\* lines 902-906: analyze_log starts a cycle over the messages on the queue
analyze_log_begin ==
    /\ an.pc = "idle"
    /\ feed # {}
    /\ an' = [AnalyzerIdle EXCEPT !.pc = "next", !.pending = feed]
    /\ UNCHANGED <<status, feed, body, starts, other_creates, notAnalyzerVars>>

\* line 906: the next message of the cycle, or the end of the cycle
analyze_log_next ==
    /\ an.pc = "next"
    /\ IF an.pending = {}
       THEN an' = [an EXCEPT !.pc = "idle"]
       ELSE \E m \in an.pending :
              an' = [an EXCEPT !.pc = "load", !.message = m,
                               !.pending = @ \ {m}, !.raised = "none",
                               !.provider_calls = {}]
    /\ UNCHANGED <<status, feed, body, starts, other_creates, notAnalyzerVars>>

\* a call to the provider, made inside or outside the write transaction
ProviderCall(call, in_transaction) ==
    [call |-> call, in_transaction |-> in_transaction]

\* lines 943-971: the provider calls of a message before the save: the log
\* objects are fetched, the instances the store and the events leave
\* undefined are described (line 1087) and so are the new images (line 1181)
load_missing_calls(describes_instances, describes_images) ==
    {"get_object_content_from_s3"}
    \cup (IF describes_instances THEN {"describe_instances"} ELSE {})
    \cup (IF describes_images THEN {"describe_images"} ELSE {})

\* _save_cloudtrail_activity describes the images itself
save_cloudtrail_activity_describing == {"describe_images"}

\* lines 1216-1435: the provider calls of _save_cloudtrail_activity: none
save_cloudtrail_activity_calls == {}

\* lines 943-971: the logs are read and the missing data is loaded from the
\* provider; account_exists: AwsCloudAccount.objects.get finds the account
load_missing_data(answer, account_exists) ==
    /\ an.pc = "load"
    /\ LET described == _load_missing_ami_data(an.message, body[an.message],
                                               status, answer)
           needs_account == \E a \in body[an.message] : status[a] = NONE
       IN  IF needs_account /\ ~account_exists
           THEN an' = process_failed(an, "DoesNotExist")
           ELSE \E describes_instances \in BOOLEAN :
                  an' = [an EXCEPT
                           !.pc = "save", !.described = described,
                           !.provider_calls =
                              {ProviderCall(call, FALSE) :
                                 call \in load_missing_calls(
                                            describes_instances,
                                            needs_account)}]
    /\ UNCHANGED <<status, feed, body, starts, other_creates, notAnalyzerVars>>

\* lines 1314-1368: the transaction opens, the new images are created and
\* the ids that need a placeholder are worked out
save_cloudtrail_activity_images(raises) ==
    /\ an.pc = "save"
    /\ LET ids == SetToSeq({a \in Amis : an.described[a].kind # "none"})
           saved == save_new_images([tx |-> an.tx, new_images |-> {}],
                                    an.described, ids, status)
       IN  IF raises
           THEN /\ an' = process_failed(an, "Exception")
                /\ status' = transaction_rollback(status, an.tx)
           ELSE /\ an' = [an EXCEPT
                            !.pc = "stub", !.tx = saved.tx,
                            !.provider_calls =
                               @ \cup {ProviderCall(call, TRUE) :
                                         call \in
                                           save_cloudtrail_activity_calls},
                            !.new_images = saved.new_images,
                            !.unavailable =
                               unavailable_ami_ids(body[an.message],
                                                   an.described,
                                                   visible(status, saved.tx))]
                /\ UNCHANGED status
    /\ UNCHANGED <<feed, body, starts, other_creates, notAnalyzerVars>>

\* lines 1369-1378: AwsMachineImage.objects.create for each placeholder; the
\* store refuses a second record for an image id (IntegrityError)
save_cloudtrail_activity_stubs ==
    /\ an.pc = "stub"
    /\ IF \E a \in an.unavailable : visible(status, an.tx)[a] # NONE
       THEN /\ an' = process_failed(an, "IntegrityError")
            /\ status' = transaction_rollback(status, an.tx)
       ELSE /\ an' = [an EXCEPT
                        !.pc = "rest",
                        !.tx = [a \in Amis |->
                                  IF a \in an.unavailable THEN UNAVAILABLE
                                  ELSE an.tx[a]]]
            /\ UNCHANGED status
    /\ UNCHANGED <<feed, body, starts, other_creates, notAnalyzerVars>>

\* lines 1380-1435: tag flags, instances and events are saved and the
\* transaction ends
save_cloudtrail_activity_rest(raises) ==
    /\ an.pc = "rest"
    /\ IF raises
       THEN /\ an' = process_failed(an, "Exception")
            /\ status' = transaction_rollback(status, an.tx)
       ELSE /\ an' = [an EXCEPT !.pc = "start", !.tx = [a \in Amis |-> NONE]]
            /\ status' = transaction_commit(status, an.tx)
    /\ UNCHANGED <<feed, body, starts, other_creates, notAnalyzerVars>>

\* start_image_inspection(arn, ami_id, region): the image is PREPARING and
\* its staging is scheduled
start_image_inspection(acc, arn, ami_id, region) ==
    [status |-> [acc.status EXCEPT ![ami_id] = PREPARING],
     starts |-> Append(acc.starts,
                       [arn |-> arn, ami_id |-> ami_id, region |-> region])]

\* lines 980-991: the loop over new_images.items()
RECURSIVE start_new_images(_, _, _)
start_new_images(acc, ids, described_amis) ==
    IF ids = <<>> THEN acc
    ELSE LET ami_id == Head(ids)
         IN  start_new_images(
               IF acc.status[ami_id] = PENDING
               THEN start_image_inspection(
                       acc, described_amis[ami_id].found_by_account_arn,
                       ami_id, described_amis[ami_id].found_in_region)
               ELSE acc,
               Tail(ids), described_amis)

\* lines 977-1003 after the save, and 911-924: inspections are started and
\* the message is deleted; raises_at: the image at which
\* start_image_inspection raises (0: at none)
process_cloudtrail_message_end(raises_at) ==
    /\ an.pc = "start"
    /\ LET ids == SetToSeq(an.new_images)
       IN  /\ raises_at \in 0..Len(ids)
           /\ raises_at > 0 => status[ids[raises_at]] = PENDING
           /\ LET upto == IF raises_at = 0 THEN Len(ids) ELSE raises_at - 1
                  done == start_new_images(
                             [status |-> status, starts |-> starts],
                             SubSeq(ids, 1, upto), an.described)
              IN  /\ status' = done.status
                  /\ starts' = done.starts
                  /\ IF raises_at = 0
                     THEN /\ feed' = feed \ {an.message}
                          /\ an' = [NextMessage(an) EXCEPT
                                      !.successes = Append(@, an.message)]
                     ELSE /\ feed' = feed
                          /\ an' = process_failed(an, "Exception")
    /\ UNCHANGED <<body, other_creates, notAnalyzerVars>>

AnalyzerInit ==
    /\ status = [a \in Amis |-> NONE]
    /\ inspection_json = [a \in Amis |-> "null"]
    /\ volume = [v \in Vols |-> "creating"]
    /\ device = [v \in Vols |-> "none"]
    /\ delete_on_term = {}
    /\ queue = <<>>
    /\ duplicates = 0
    /\ asg = [MinSize |-> 0, MaxSize |-> 0, DesiredCapacity |-> 0]
    /\ hosts = 0
    /\ host_running = FALSE
    /\ enqueue_tasks = {}
    /\ run_tasks = <<>>
    /\ scale_down_tasks = FALSE
    /\ jobs = <<>>
    /\ launches = <<>>
    /\ debug = FALSE
    /\ last = NoLast
    /\ BesideInit

AnalyzerNext ==
    \/ \E m \in FeedMessages, seen_ami_ids \in SUBSET Amis :
          FeedDelivers(m, seen_ami_ids)
    \/ \E a \in Amis, st \in {PENDING, INSPECTED} : OtherTaskCreates(a, st)
    \/ analyze_log_begin
    \/ analyze_log_next
    \/ \E answer \in [Amis -> DescribeAnswers], account_exists \in BOOLEAN :
          load_missing_data(answer, account_exists)
    \/ \E raises \in BOOLEAN : save_cloudtrail_activity_images(raises)
    \/ save_cloudtrail_activity_stubs
    \/ \E raises \in BOOLEAN : save_cloudtrail_activity_rest(raises)
    \/ \E raises_at \in 0..Cardinality(Amis) :
          process_cloudtrail_message_end(raises_at)

SpecAnalyzer == AnalyzerInit /\ [][AnalyzerNext]_vars

(***************************************************************************)
(* The analyzer: what the claims speak of.                                 *)
(***************************************************************************)
\* the step ends the processing of the message the analyzer holds
MessageEnds == an.message # "none" /\ an'.message = "none"
\* the calls of start_image_inspection made in the step
NewStarts == SubSeq(starts', Len(starts) + 1, Len(starts'))
StartedNow(a) == \E i \in 1..Len(NewStarts) : NewStarts[i].ami_id = a
\* the step completes the processing: the transaction is committed and the
\* inspection of every new image that is PENDING has been started
ProcessingCompletes ==
    /\ MessageEnds
    /\ an.pc = "start"
    /\ \A a \in an.new_images : status[a] = PENDING => StartedNow(a)

(***************************************************************************)
(* C12: analyze_log deletes a feed message iff its processing completed    *)
(* successfully; a message whose processing raised or reported failure     *)
(* stays on the queue, is put in the failures list, and the remaining      *)
(* messages of the cycle are still to be processed.                        *)
(***************************************************************************)
C12_AckOnlyOnSuccess ==
    [][/\ feed' \subseteq feed => (feed' # feed <=> ProcessingCompletes)
       /\ ProcessingCompletes =>
            /\ feed' = feed \ {an.message}
            /\ an'.successes = Append(an.successes, an.message)
            /\ an'.failures = an.failures
       /\ (MessageEnds /\ ~ProcessingCompletes) =>
            /\ an.message \in feed'
            /\ an'.failures = Append(an.failures, an.message)
            /\ an'.successes = an.successes
            /\ an'.pending = an.pending
            /\ an'.pc = "next"
      ]_vars

\* in one cycle a message failed and stayed on the queue, and a message
\* processed after it succeeded and was deleted
C12_Witness ==
    /\ an.pc = "next"
    /\ an.raised = "none"
    /\ Len(an.failures) = 1 /\ Len(an.successes) = 1
    /\ an.failures[1] \in feed
    /\ an.successes[1] \notin feed

(***************************************************************************)
(* C15: _save_cloudtrail_activity is all-or-nothing: when one of its steps *)
(* fails, nothing the call wrote is in the store, no inspection is         *)
(* started, and the message is reported failed and stays on the queue.     *)
(***************************************************************************)
\* the transaction of _save_cloudtrail_activity is open
InTransaction == an.pc \in {"save", "stub", "rest"}

C15_SaveAllOrNothing ==
    [][(InTransaction /\ MessageEnds) =>
          /\ status' = status
          /\ starts' = starts
          /\ feed' = feed
          /\ an.message \in feed'
          /\ an'.failures = Append(an.failures, an.message)
          /\ an'.successes = an.successes
      ]_vars

\* the creation of a placeholder failed after the call had worked on a
\* message that refers to both images, and an image of the message has no
\* record
C15_Witness ==
    /\ an.pc = "next"
    /\ an.raised = "IntegrityError"
    /\ an.failures # <<>>
    /\ body[an.failures[Len(an.failures)]] = Amis
    /\ an.failures[Len(an.failures)] \in feed
    /\ \E a \in Amis : status[a] = NONE
    /\ starts = <<>>


(***************************************************************************)
(* C16: while one feed message is processed, start_image_inspection is     *)
(* called only after the write transaction has committed, and exactly for  *)
(* the images this message created whose status is still PENDING, with the *)
(* account and region recorded when the image was described; never for an  *)
(* image that was already known, for one found INSPECTED, or for an        *)
(* UNAVAILABLE placeholder.                                                *)
(***************************************************************************)
\* the images the open transaction created as PENDING
CreatedPending(tx) == {a \in Amis : status[a] = NONE /\ tx[a] = PENDING}

C16_StartAfterCommitForNewPending ==
    [][/\ (an.pc = "save" /\ an'.pc = "stub") =>
             an'.new_images = CreatedPending(an'.tx)
       /\ (an.pc = "stub" /\ an'.pc = "rest") =>
             /\ an'.new_images = an.new_images
             /\ CreatedPending(an'.tx) = CreatedPending(an.tx)
       /\ (an.pc = "rest" /\ an'.pc = "start") =>
             /\ an'.new_images = CreatedPending(an.tx)
             /\ \A a \in an.new_images : status'[a] = PENDING
       /\ NewStarts # <<>> =>
             /\ an.pc = "start"
             /\ \A a \in Amis : an.tx[a] = NONE
             /\ \A i \in 1..Len(NewStarts) :
                   LET s == NewStarts[i]
                   IN  /\ s.ami_id \in an.new_images
                       /\ s.ami_id \in body[an.message]
                       /\ status[s.ami_id] = PENDING
                       /\ s.arn = AccountArnOf[an.message]
                       /\ s.region = RegionOf[an.message]
                       /\ \A j \in 1..Len(NewStarts) :
                             NewStarts[j].ami_id = s.ami_id => j = i
       /\ (an.pc = "start" /\ MessageEnds /\ an'.raised = "none") =>
             \A a \in Amis :
                StartedNow(a) <=> (a \in an.new_images /\ status[a] = PENDING)
       /\ \A a \in Amis :
             (status[a] \in {INSPECTED, UNAVAILABLE} \/ a \notin an.new_images)
                => ~StartedNow(a)
      ]_vars

\* a message that refers to both images was processed; the inspection of
\* the one it created PENDING was started, and the other, for which it made
\* a placeholder, was left alone
C16_Witness ==
    /\ an.pc = "next"
    /\ an.successes # <<>>
    /\ body[an.successes[Len(an.successes)]] = Amis
    /\ Len(starts) = 1
    /\ status[starts[1].ami_id] = PREPARING
    /\ \E a \in Amis : a # starts[1].ami_id /\ status[a] = UNAVAILABLE


(***************************************************************************)
(* C17: there is at most one MachineImage record per provider image id,    *)
(* and an attempt to create an image whose id already exists (one another  *)
(* task brought to INSPECTED included) is a no-op: it neither fails the    *)
(* batch nor resets the existing record.                                   *)
(***************************************************************************)
\* the step tries to create an image another task has created meanwhile
CreatesExisting ==
    \/ /\ an.pc = "save"
       /\ \E a \in Amis : an.described[a].kind # "none" /\ status[a] # NONE
    \/ /\ an.pc = "stub"
       /\ \E a \in an.unavailable : status[a] # NONE

C17_DuplicateCreateIsNoOp ==
    [][(CreatesExisting /\ an'.raised # "Exception") =>
          /\ an'.raised = "none"
          /\ an'.message = an.message
          /\ status' = status
          /\ \A a \in Amis : status[a] # NONE => an'.tx[a] = NONE
      ]_vars


(***************************************************************************)
(* The staging of images: copy_ami_snapshot, copy_ami_to_customer_account, *)
(* remove_snapshot_ownership, create_volume, delete_snapshot and           *)
(* enqueue_ready_volume, beside the deletion of image records.             *)
(***************************************************************************)
\* aws.copy_ami: the id of the copy made of an image
CopyOf == [a \in Amis |-> a \o "-copy"]
\* aws.get_ami_snapshot_id: the snapshot of an image
SnapshotOf(ami_id) == "snap-" \o ami_id
\* aws.copy_snapshot: the id of the copy made of a snapshot
SnapshotCopyOf(snapshot_id) == "copy-" \o snapshot_id

\* what copy_ami_snapshot can find at the provider
SnapshotAnswers ==
    {"no_ami", "no_snapshot_id", "encrypted", "foreign_owner",
     "snapshot_not_found", "client_error", "ok"}

\* The messages of a ClientError, as sequences of pieces of text; "." is the
\* period a message may end with.
MarketplaceMessage ==
    <<"Images from AWS Marketplace", "cannot be copied to another AWS account">>
BillingProductMessage ==
    <<"Images with EC2 BillingProduct codes",
      "cannot be copied to another AWS account">>
StorageMessage ==
    <<"You do not have permission", "to access the storage of this ami">>
\* line 385-390: a tuple of three messages
public_errors == {MarketplaceMessage, BillingProductMessage, StorageMessage}
\* line 391: one string, not a tuple
private_errors == StorageMessage
\* a message taken as it comes
strip_period_never(message) == message

\* str.endswith(".") and the slice [:-1] of lines 393-397
strip_period(message) ==
    IF message # <<>> /\ message[Len(message)] = "."
    THEN SubSeq(message, 1, Len(message) - 1)
    ELSE message
\* Python's in on two strings: part occurs in whole
occurs_in(part, whole) ==
    \E i \in 1..(Len(whole) + 1) :
       /\ i + Len(part) - 1 <= Len(whole)
       /\ SubSeq(whole, i, i + Len(part) - 1) = part
\* line 399
is_private_error(error, public) == ~public /\ occurs_in(error, private_errors)
\* line 411
is_public_error(error) == error \in public_errors

\* what aws.get_ami and aws.copy_ami answer together; public: the image
\* aws.get_ami returned is public
CopyAmiAnswer(outcome, code, message, public) ==
    [outcome |-> outcome, Code |-> code, Message |-> message,
     public |-> public]
ClientError(code, message, public) ==
    CopyAmiAnswer("ClientError", code, message, public)
\* the task found no record of its image
FoundDeleted == CopyAmiAnswer("deleted", "none", <<>>, FALSE)
\* the messages aws.copy_ami fails with
ErrorMessages ==
    {MarketplaceMessage, Append(MarketplaceMessage, "."),
     BillingProductMessage, Append(BillingProductMessage, "."),
     StorageMessage, Append(StorageMessage, "."),
     <<"You do not have permission">>, <<>>,
     <<"Request limit exceeded">>}
\* what aws.get_ami and aws.copy_ami can answer: no image, a copy, or a
\* ClientError
CopyAmiAnswers ==
    {CopyAmiAnswer("no_ami", "none", <<>>, FALSE)}
       \cup {CopyAmiAnswer("copied", "none", <<>>, public) :
                public \in BOOLEAN}
       \cup {ClientError("InvalidRequest", m, public) :
                m \in ErrorMessages, public \in BOOLEAN}
       \cup {ClientError("RequestLimitExceeded", <<"Request limit exceeded">>,
                         public) : public \in BOOLEAN}

\* a pending Celery task of the staging
StagingTask(task, ami_id, reference_ami_id, snapshot_id, copy_id, volume_id) ==
    [task |-> task, ami_id |-> ami_id, reference_ami_id |-> reference_ami_id,
     snapshot_id |-> snapshot_id, snapshot_copy_id |-> copy_id,
     volume_id |-> volume_id, retries |-> 0]
copy_ami_snapshot_delay(ami_id, reference_ami_id) ==
    StagingTask("copy_ami_snapshot", ami_id, reference_ami_id, "none", "none",
                "none")
copy_ami_to_customer_account_delay(reference_ami_id) ==
    StagingTask("copy_ami_to_customer_account", "none", reference_ami_id,
                "none", "none", "none")
remove_snapshot_ownership_delay(customer_snapshot_id, snapshot_copy_id) ==
    StagingTask("remove_snapshot_ownership", "none", "none",
                customer_snapshot_id, snapshot_copy_id, "none")
create_volume_delay(ami_id, snapshot_copy_id) ==
    StagingTask("create_volume", ami_id, "none", "none", snapshot_copy_id,
                "none")
delete_snapshot_delay(snapshot_copy_id, volume_id) ==
    StagingTask("delete_snapshot", "none", "none", "none", snapshot_copy_id,
                volume_id)

\* AwsMachineImage.objects.filter(ec2_ami_id=ami_id).exists(); the copy of an
\* image has no record while it is staged
image_exists(st, ami_id) == ami_id \in Amis /\ st[ami_id] # NONE

\* update_aws_image_status_error for any image id
update_status_error(st, ami_id) ==
    IF ami_id \in Amis THEN update_aws_image_status_error(st, ami_id) ELSE st

\* the pending staging tasks after task t raised: it is retried
\* automatically, up to MaxRetries times
retry_or_fail_staging(tasks, t) ==
    IF t.retries < MaxRetries
    THEN (tasks \ {t}) \cup {[t EXCEPT !.retries = @ + 1]}
    ELSE tasks \ {t}

\* what a staging task reports of its run
Staged(t, found, raised) ==
    [task |-> t.task, ami_id |-> t.ami_id,
     reference_ami_id |-> t.reference_ami_id, found |-> found,
     raised |-> raised]

\* everything the staging never touches
notStagingVars ==
    <<inspection_json, device, delete_on_term, duplicates, clusterVars,
      run_tasks, scale_down_tasks, jobs, launches, debug, last, tagVars,
      analyzerVars, describeVars, authVars, scalerVars, callVars>>

\* lines 181-335; found: what the provider answers
copy_ami_snapshot(t, found) ==
    /\ t \in staging_tasks
    /\ t.task = "copy_ami_snapshot"
    /\ LET ami_id == t.ami_id
           reference_ami_id == t.reference_ami_id
           rest == staging_tasks \ {t}
           customer_snapshot_id == SnapshotOf(ami_id)
           snapshot_copy_id == SnapshotCopyOf(customer_snapshot_id)
           nothing == /\ UNCHANGED <<status, ec2, is_encrypted, image_copies>>
                      /\ staging_tasks' = rest
           raises == /\ UNCHANGED <<status, ec2, is_encrypted, image_copies>>
                     /\ staging_tasks' = retry_or_fail_staging(staging_tasks, t)
       IN  \* lines 199-217
           IF ~image_exists(status, IF reference_ami_id # "none"
                                    THEN reference_ami_id ELSE ami_id)
           THEN /\ nothing
                /\ staged' = Staged(t, "deleted", "none")
           \* lines 221-243
           ELSE IF found \in {"no_ami", "no_snapshot_id"}
           THEN /\ status' = update_status_error(status, ami_id)
                /\ staging_tasks' = rest
                /\ staged' = Staged(t, found, "none")
                /\ UNCHANGED <<ec2, is_encrypted, image_copies>>
           \* lines 249-267
           ELSE IF found = "encrypted"
           THEN IF image_exists(status, ami_id)
                THEN /\ status' = [status EXCEPT ![ami_id] = ERROR]
                     /\ is_encrypted' = is_encrypted \cup {ami_id}
                     /\ staging_tasks' = rest
                     /\ staged' = Staged(t, found, "none")
                     /\ UNCHANGED <<ec2, image_copies>>
                ELSE /\ raises
                     /\ staged' = Staged(t, found, "DoesNotExist")
           \* lines 283-291 and 292-296
           ELSE IF \/ found = "foreign_owner" /\ reference_ami_id = "none"
                   \/ found = "snapshot_not_found"
           THEN /\ staging_tasks' =
                      rest \cup {copy_ami_to_customer_account_delay(ami_id)}
                /\ staged' = Staged(t, found, "none")
                /\ UNCHANGED <<status, ec2, is_encrypted, image_copies>>
           \* line 297
           ELSE IF found = "client_error"
           THEN /\ raises
                /\ staged' = Staged(t, found, "ClientError")
           \* lines 299-335
           ELSE /\ ec2' = [ec2 EXCEPT
                             !.shared = @ \cup {customer_snapshot_id},
                             !.snapshot_copies = @ \cup {snapshot_copy_id}]
                /\ image_copies' =
                      IF reference_ami_id # "none"
                      THEN image_copies \cup {<<ami_id, reference_ami_id>>}
                      ELSE image_copies
                /\ staging_tasks' =
                      rest \cup
                      {remove_snapshot_ownership_delay(customer_snapshot_id,
                                                       snapshot_copy_id),
                       create_volume_delay(
                          IF reference_ami_id # "none"
                          THEN reference_ami_id ELSE ami_id,
                          snapshot_copy_id)}
                /\ staged' = Staged(t, found, "none")
                /\ UNCHANGED <<status, is_encrypted>>
    /\ UNCHANGED <<volume, queue, enqueue_tasks, aws_marketplace_image,
                   notStagingVars>>

\* lines 340-427; answer: what aws.get_ami and aws.copy_ami answer
copy_ami_to_customer_account(t, answer) ==
    /\ t \in staging_tasks
    /\ t.task = "copy_ami_to_customer_account"
    /\ LET reference_ami_id == t.reference_ami_id
           rest == staging_tasks \ {t}
       IN  \* lines 359-367
           IF ~image_exists(status, reference_ami_id)
           THEN /\ staging_tasks' = rest
                /\ staged' = Staged(t, FoundDeleted, "none")
                /\ UNCHANGED <<status, ec2, aws_marketplace_image>>
           \* lines 370-380
           ELSE IF answer.outcome = "no_ami"
           THEN /\ status' = update_status_error(status, reference_ami_id)
                /\ staging_tasks' = rest
                /\ staged' = Staged(t, answer, "none")
                /\ UNCHANGED <<ec2, aws_marketplace_image>>
           \* lines 383 and 427
           ELSE IF answer.outcome = "copied"
           THEN /\ ec2' = [ec2 EXCEPT
                             !.ami_copies = @ \cup {CopyOf[reference_ami_id]}]
                /\ staging_tasks' =
                      rest \cup {copy_ami_snapshot_delay(
                                    CopyOf[reference_ami_id],
                                    reference_ami_id)}
                /\ staged' = Staged(t, answer, "none")
                /\ UNCHANGED <<status, aws_marketplace_image>>
           \* lines 392-410
           ELSE IF /\ answer.Code = "InvalidRequest"
                   /\ is_private_error(strip_period(answer.Message),
                                       answer.public)
           THEN /\ status' = update_status_error(status, reference_ami_id)
                /\ staging_tasks' = rest
                /\ staged' = Staged(t, answer, "none")
                /\ UNCHANGED <<ec2, aws_marketplace_image>>
           \* lines 411-423
           ELSE IF /\ answer.Code = "InvalidRequest"
                   /\ is_public_error(strip_period(answer.Message))
           THEN /\ status' = update_aws_image_status_inspected(
                                status, reference_ami_id)
                /\ aws_marketplace_image' =
                      aws_marketplace_image \cup {reference_ami_id}
                /\ staging_tasks' = rest
                /\ staged' = Staged(t, answer, "none")
                /\ UNCHANGED ec2
           \* line 425
           ELSE /\ staging_tasks' = retry_or_fail_staging(staging_tasks, t)
                /\ staged' = Staged(t, answer, "ClientError")
                /\ UNCHANGED <<status, ec2, aws_marketplace_image>>
    /\ UNCHANGED <<volume, queue, enqueue_tasks, is_encrypted, image_copies,
                   notStagingVars>>

\* the grant is removed without waiting for the snapshot copy
snapshot_copy_settled_or_not(provider, snapshot_copy_id) == TRUE

\* lines 448-464: aws.check_snapshot_state lets the task go on when the
\* snapshot copy is completed, and InvalidSnapshot.NotFound is tolerated
snapshot_copy_settled(provider, snapshot_copy_id) ==
    \/ snapshot_copy_id \notin provider.snapshot_copies
    \/ snapshot_copy_id \in provider.completed

\* lines 432-475: the task waits until the snapshot copy is completed or
\* gone, then the grant on the customer snapshot is removed
remove_snapshot_ownership(t) ==
    /\ t \in staging_tasks
    /\ t.task = "remove_snapshot_ownership"
    /\ snapshot_copy_settled(ec2, t.snapshot_copy_id)
    /\ ec2' = [ec2 EXCEPT !.shared = @ \ {t.snapshot_id}]
    /\ staging_tasks' = staging_tasks \ {t}
    /\ staged' = Staged(t, "none", "none")
    /\ UNCHANGED <<status, volume, queue, enqueue_tasks, is_encrypted,
                   image_copies, aws_marketplace_image, notStagingVars>>

\* the provider finishes a snapshot copy
SnapshotCopyCompletes(snapshot_copy_id) ==
    /\ snapshot_copy_id \in ec2.snapshot_copies \ ec2.completed
    /\ ec2' = [ec2 EXCEPT !.completed = @ \cup {snapshot_copy_id}]
    /\ UNCHANGED <<status, volume, queue, enqueue_tasks, staging_tasks,
                   is_encrypted, image_copies, aws_marketplace_image, staged,
                   notStagingVars>>

\* lines 480-500; created: aws.create_volume returns the volume of the image
\* (TRUE) or raises (FALSE)
create_volume(t, created) ==
    /\ t \in staging_tasks
    /\ t.task = "create_volume"
    /\ LET volume_id == VolumeOf[t.ami_id]
       IN  IF created
           THEN /\ volume' = [volume EXCEPT ![volume_id] = "creating"]
                /\ staging_tasks' =
                      (staging_tasks \ {t})
                         \cup {delete_snapshot_delay(t.snapshot_copy_id,
                                                     volume_id)}
                /\ enqueue_tasks' =
                      enqueue_tasks \cup {Message(t.ami_id, volume_id)}
                /\ staged' = Staged(t, "none", "none")
           ELSE /\ staging_tasks' = retry_or_fail_staging(staging_tasks, t)
                /\ staged' = Staged(t, "none", "ClientError")
                /\ UNCHANGED <<volume, enqueue_tasks>>
    /\ UNCHANGED <<status, queue, ec2, is_encrypted, image_copies,
                   aws_marketplace_image, notStagingVars>>

\* lines 505-528: once the volume is ready the snapshot copy is deleted;
\* snapshot_copy.delete raises when the provider has no such snapshot
delete_snapshot(t) ==
    /\ t \in staging_tasks
    /\ t.task = "delete_snapshot"
    /\ check_volume_state(volume[t.volume_id])
    /\ IF t.snapshot_copy_id \in ec2.snapshot_copies
       THEN /\ ec2' = [ec2 EXCEPT
                         !.snapshot_copies = @ \ {t.snapshot_copy_id},
                         !.completed = @ \ {t.snapshot_copy_id}]
            /\ staging_tasks' = staging_tasks \ {t}
            /\ staged' = Staged(t, "none", "none")
       ELSE /\ ec2' = ec2
            /\ staging_tasks' = retry_or_fail_staging(staging_tasks, t)
            /\ staged' = Staged(t, "snapshot_not_found", "ClientError")
    /\ UNCHANGED <<status, volume, queue, enqueue_tasks, is_encrypted,
                   image_copies, aws_marketplace_image, notStagingVars>>

\* the snapshot copy is deleted at the provider before delete_snapshot gets
\* to it (by an earlier execution of the task, or by hand)
SnapshotCopyGone(snapshot_copy_id) ==
    /\ snapshot_copy_id \in ec2.snapshot_copies
    /\ \E t \in staging_tasks :
          t.task = "delete_snapshot" /\ t.snapshot_copy_id = snapshot_copy_id
    /\ ec2' = [ec2 EXCEPT !.snapshot_copies = @ \ {snapshot_copy_id},
                          !.completed = @ \ {snapshot_copy_id}]
    /\ UNCHANGED <<status, volume, queue, enqueue_tasks, staging_tasks,
                   is_encrypted, image_copies, aws_marketplace_image, staged,
                   notStagingVars>>

\* start_image_inspection has been called for each image: the image is
\* PREPARING and its copy_ami_snapshot is scheduled
StagingInit ==
    /\ status = [a \in Amis |-> PREPARING]
    /\ inspection_json = [a \in Amis |-> "null"]
    /\ volume = [v \in Vols |-> "none"]
    /\ device = [v \in Vols |-> "none"]
    /\ delete_on_term = {}
    /\ queue = <<>>
    /\ duplicates = 0
    /\ asg = [MinSize |-> 0, MaxSize |-> 0, DesiredCapacity |-> 0]
    /\ hosts = 0
    /\ host_running = FALSE
    /\ enqueue_tasks = {}
    /\ run_tasks = <<>>
    /\ scale_down_tasks = FALSE
    /\ jobs = <<>>
    /\ launches = <<>>
    /\ debug = FALSE
    /\ last = NoLast
    /\ ami_tag_events = <<>>
    /\ tag_change = NoTagChange
    /\ feed = {}
    /\ body = [m \in FeedMessages |-> {}]
    /\ an = AnalyzerIdle
    /\ starts = <<>>
    /\ other_creates = 0
    /\ staging_tasks = {copy_ami_snapshot_delay(a, "none") : a \in Amis}
    /\ ec2 = NoEc2
    /\ is_encrypted = {}
    /\ image_copies = {}
    /\ aws_marketplace_image = {}
    /\ staged = NoStaged
    /\ aws_account = NewAccount
    /\ describer = DescriberIdle
    /\ users = {}
    /\ authenticated = NoAuthenticated
    /\ scalers = ScalersIdle
    /\ helper = NoCall

StagingNext ==
    \/ (\E a \in Amis : DeleteImage(a)) /\ UNCHANGED besideVars
    \/ (\E v \in Vols : VolumeBecomesAvailable(v)) /\ UNCHANGED besideVars
    \/ \E t \in staging_tasks, found \in SnapshotAnswers :
          copy_ami_snapshot(t, found)
    \/ \E t \in staging_tasks, answer \in CopyAmiAnswers :
          copy_ami_to_customer_account(t, answer)
    \/ \E t \in staging_tasks : remove_snapshot_ownership(t)
    \/ \E t \in staging_tasks, created \in BOOLEAN : create_volume(t, created)
    \/ \E t \in staging_tasks : delete_snapshot(t)
    \/ (\E t \in enqueue_tasks : enqueue_ready_volume(t))
          /\ UNCHANGED besideVars
    \/ \E s \in ec2.snapshot_copies : SnapshotCopyGone(s)
    \/ \E s \in ec2.snapshot_copies : SnapshotCopyCompletes(s)

SpecStaging == StagingInit /\ [][StagingNext]_vars


(***************************************************************************)
(* The staging: what the claims speak of.                                  *)
(***************************************************************************)
\* the staging tasks the step takes off the pending ones, i.e. runs
StagingTasksRun == staging_tasks \ staging_tasks'
\* the enqueue_ready_volume tasks the step runs
EnqueueTasksRun == enqueue_tasks \ enqueue_tasks'
\* the image a staging task works for: the original one when it is handed a
\* copy
OriginalOf(t) ==
    IF t.reference_ami_id # "none" THEN t.reference_ami_id ELSE t.ami_id
\* the step leaves the provider, the queue, the pending tasks and the store
\* as they are, but for the task that ran
NothingDone ==
    /\ ec2' = ec2
    /\ volume' = volume
    /\ queue' = queue
    /\ staging_tasks' \subseteq staging_tasks
    /\ enqueue_tasks' \subseteq enqueue_tasks
    /\ status' = status
    /\ is_encrypted' = is_encrypted
    /\ image_copies' = image_copies
    /\ aws_marketplace_image' = aws_marketplace_image

(***************************************************************************)
(* C18: a staging or provisioning task (copy_ami_snapshot,                 *)
(* copy_ami_to_customer_account, create_volume, enqueue_ready_volume) run  *)
(* for an image whose record has been deleted is a no-op: no provider      *)
(* resource is created, no queue message is enqueued, no follow-up task is *)
(* scheduled and no store write is made.                                   *)
(***************************************************************************)
C18_DeletedImageNoOp ==
    [][/\ \A t \in StagingTasksRun :
            (/\ t.task \in {"copy_ami_snapshot",
                            "copy_ami_to_customer_account", "create_volume"}
             /\ ~image_exists(status, OriginalOf(t))) => NothingDone
       /\ \A t \in EnqueueTasksRun :
            ~image_exists(status, t.ami_id) => NothingDone
      ]_vars

(***************************************************************************)
(* C19: when copy_ami_snapshot finds the snapshot of the image encrypted,  *)
(* the image is marked ERROR with its encrypted flag set and the task      *)
(* ends: no read grant, no snapshot copy, no image copy, no volume, no     *)
(* follow-up task, and the task does not fail; both when it stages the     *)
(* original image and when it stages a copy of it.                         *)
(***************************************************************************)
C19_EncryptedMarksError ==
    [][\A t \in StagingTasksRun :
          (t.task = "copy_ami_snapshot" /\ staged'.found = "encrypted") =>
             /\ staged'.raised = "none"
             /\ status'[OriginalOf(t)] = ERROR
             /\ OriginalOf(t) \in is_encrypted'
             /\ ec2' = ec2
             /\ volume' = volume
             /\ queue' = queue
             /\ staging_tasks' = staging_tasks \ {t}
             /\ enqueue_tasks' = enqueue_tasks
      ]_vars

(***************************************************************************)
(* C20: when staging runs against a copy of an image (reference_ami_id     *)
(* set), every result is attached to the original image: the volume task   *)
(* and the ready-volume message carry the original image id, and every     *)
(* terminal status update of the run (ERROR because the copy or its        *)
(* snapshot cannot be found, ERROR because the snapshot is encrypted) is   *)
(* applied to the record of the original image, never to the copy's id.    *)
(***************************************************************************)
C20_ResultsAttachToOriginal ==
    [][/\ \A t \in StagingTasksRun :
            (/\ t.task = "copy_ami_snapshot"
             /\ t.reference_ami_id # "none"
             /\ staged'.found # "deleted") =>
               /\ \A n \in staging_tasks' \ staging_tasks :
                     n.task = "create_volume" => n.ami_id = t.reference_ami_id
               /\ staged'.found \in {"no_ami", "no_snapshot_id", "encrypted"}
                     => status'[t.reference_ami_id] = ERROR
               /\ \A a \in Amis \ {t.reference_ami_id} : status'[a] = status[a]
       /\ \A t \in StagingTasksRun :
            t.task = "create_volume" =>
               \A n \in enqueue_tasks' \ enqueue_tasks : n.ami_id = t.ami_id
       /\ \A t \in EnqueueTasksRun :
            /\ Len(queue') = Len(queue) + 1
            /\ queue'[Len(queue')].ami_id = t.ami_id
            /\ t.ami_id \in Amis
      ]_vars

\* the step runs copy_ami_to_customer_account with an image copy that failed
CopyFailed(t) ==
    /\ t.task = "copy_ami_to_customer_account"
    /\ staged'.found.outcome = "ClientError"
\* no task is pending for the image, and the provider and the queue hold
\* nothing made for it
NothingStagedFor(a) ==
    /\ \A t \in staging_tasks :
          /\ t.ami_id \notin {a, CopyOf[a]}
          /\ t.reference_ami_id # a
          /\ t.volume_id # VolumeOf[a]
          /\ t.snapshot_copy_id \notin
                {SnapshotCopyOf(SnapshotOf(a)),
                 SnapshotCopyOf(SnapshotOf(CopyOf[a]))}
    /\ \A t \in enqueue_tasks : t.ami_id # a
    /\ ec2.snapshot_copies \cap {SnapshotCopyOf(SnapshotOf(a)),
                                 SnapshotCopyOf(SnapshotOf(CopyOf[a]))} = {}
    /\ volume[VolumeOf[a]] = "none"
    /\ \A i \in 1..Len(queue) : queue[i].ami_id # a

(***************************************************************************)
(* C21: when aws.copy_ami fails with an error whose text is one of the     *)
(* known marketplace or billing phrases, copy_ami_to_customer_account      *)
(* marks the original image INSPECTED with the marketplace flag, does not  *)
(* re-raise and schedules nothing: no snapshot copy, no volume and no      *)
(* ready-volume message is ever made for that image.                       *)
(***************************************************************************)
C21_MarketplaceMarksInspected ==
    [][/\ \A t \in StagingTasksRun :
            (/\ CopyFailed(t)
             /\ \E m \in {MarketplaceMessage, BillingProductMessage} :
                   staged'.found.Message \in {m, Append(m, ".")}) =>
               /\ staged'.raised = "none"
               /\ status' = [status EXCEPT ![t.reference_ami_id] = INSPECTED]
               /\ t.reference_ami_id \in aws_marketplace_image'
               /\ staging_tasks' = staging_tasks \ {t}
               /\ ec2' = ec2
               /\ volume' = volume
               /\ queue' = queue
               /\ enqueue_tasks' = enqueue_tasks
       /\ \A a \in aws_marketplace_image' : NothingStagedFor(a)'
      ]_vars

\* the copy of an image failed with the billing phrase, period at its end,
\* and the image is INSPECTED and flagged
C21_Witness ==
    /\ staged.task = "copy_ami_to_customer_account"
    /\ staged.found.outcome = "ClientError"
    /\ staged.found.Message = Append(BillingProductMessage, ".")
    /\ status[staged.reference_ami_id] = INSPECTED
    /\ staged.reference_ami_id \in aws_marketplace_image

(***************************************************************************)
(* C22: when aws.copy_ami fails because the storage of a non-public image  *)
(* is inaccessible, the image is marked ERROR and the task ends without    *)
(* retry; a failure whose error is none of the known phrases changes no    *)
(* image status and is re-raised.                                          *)
(***************************************************************************)
C22_PrivateStorageMarksError ==
    [][\A t \in StagingTasksRun :
          CopyFailed(t) =>
             /\ (/\ staged'.found.Message
                       \in {StorageMessage, Append(StorageMessage, ".")}
                 /\ ~staged'.found.public) =>
                   /\ staged'.raised = "none"
                   /\ status' = [status EXCEPT ![t.reference_ami_id] = ERROR]
                   /\ staging_tasks' = staging_tasks \ {t}
             /\ (\A m \in public_errors :
                    staged'.found.Message \notin {m, Append(m, ".")}) =>
                   /\ staged'.raised = "ClientError"
                   /\ status' = status
      ]_vars

(***************************************************************************)
(* C23: delete_snapshot treats a snapshot copy that no longer exists as    *)
(* already deleted: it completes without error and is not retried.         *)
(***************************************************************************)
C23_DeleteSnapshotToleratesNotFound ==
    [][\A t \in StagingTasksRun :
          (/\ t.task = "delete_snapshot"
           /\ t.snapshot_copy_id \notin ec2.snapshot_copies) =>
             /\ staged'.raised = "none"
             /\ staging_tasks' = staging_tasks \ {t}
      ]_vars

(***************************************************************************)
(* The staging under the scheduling of the worker pool: a task that is     *)
(* pending is executed, and the provider finishes the volumes it creates.  *)
(***************************************************************************)
StagingFairness ==
    /\ WF_vars(\E t \in staging_tasks, found \in SnapshotAnswers :
                  copy_ami_snapshot(t, found))
    /\ WF_vars(\E t \in staging_tasks, answer \in CopyAmiAnswers :
                  copy_ami_to_customer_account(t, answer))
    /\ WF_vars(\E t \in staging_tasks : remove_snapshot_ownership(t))
    /\ WF_vars(\E t \in staging_tasks, created \in BOOLEAN :
                  create_volume(t, created))
    /\ WF_vars(\E t \in staging_tasks : delete_snapshot(t))
    /\ WF_vars((\E t \in enqueue_tasks : enqueue_ready_volume(t))
                  /\ UNCHANGED besideVars)
    /\ WF_vars((\E v \in Vols : VolumeBecomesAvailable(v))
                  /\ UNCHANGED besideVars)
    /\ WF_vars(\E s \in ec2.snapshot_copies : SnapshotCopyCompletes(s))

SpecStagingFair == SpecStaging /\ StagingFairness

\* the snapshot copies copy_ami_snapshot can make
SnapshotCopies ==
    {SnapshotCopyOf(SnapshotOf(a)) : a \in Amis}
       \cup {SnapshotCopyOf(SnapshotOf(CopyOf[a])) : a \in Amis}

(***************************************************************************)
(* C24: every snapshot copy made by copy_ami_snapshot is eventually        *)
(* deleted, whatever the image ends as and whether or not the creation of  *)
(* the volume succeeds, tasks being retried up to their retry limit.       *)
(***************************************************************************)
C24_SnapshotCopiesDeleted ==
    \A s \in SnapshotCopies :
       (s \in ec2.snapshot_copies) ~> (s \notin ec2.snapshot_copies)

(***************************************************************************)
(* C25: every volume made by create_volume is deleted in the end whatever  *)
(* the outcome of the inspection: once run_inspection_cluster has finished *)
(* with a batch, each volume of the batch is either attached and set to be *)
(* deleted with the inspection host, or deleted by the dispatcher; this    *)
(* includes the volumes of messages filtered out because their image no    *)
(* longer exists and the volumes of a batch for which no scan is launched. *)
(***************************************************************************)
\* the step ends the work of run_inspection_cluster on its batch
RunTaskFinishes ==
    /\ RunTaskTaken
    /\ last'.result \in {"nothing_relevant", "no_targets", "launched"}

C25_VolumesOfBatchDeleted ==
    [][RunTaskFinishes =>
          \A i \in 1..Len(last'.arg) :
             LET v == last'.arg[i].volume_id
             IN  \/ volume'[v] = "deleted"
                 \/ device'[v] # "none" /\ v \in delete_on_term'
      ]_vars


\* ---------------------------------------------------------------------------
\* initial_aws_describe_instances (tasks.py 122-176)
\* ---------------------------------------------------------------------------

\* the instances a describe call can report
DescribeInstances == {"i-1", "i-2"}

\* what describe_instances_everywhere can return: running instances, each
\* with the image it was launched from
InstancesDataAnswers == UNION {[S -> Amis] : S \in SUBSET DescribeInstances}

\* the image ids of the described instances
described_image_ids(instances_data) ==
    {instances_data[i] : i \in DOMAIN instances_data}

\* the other variables the initial describe leaves alone
notDescribeVars ==
    <<inspection_json, volume, device, delete_on_term, queue, duplicates,
      asg, hosts, host_running, enqueue_tasks, run_tasks, scale_down_tasks,
      jobs, launches, debug, last, tagVars, feed, body, an, stagingVars,
      authVars, scalerVars, callVars>>

\* the transaction of lines 157-174 skips the re-check of the account
save_initial_describe_unchecked(account, st, instances_data) ==
    LET new_ami_ids == {a \in described_image_ids(instances_data) : st[a] = NONE}
    IN  [found |-> TRUE,
         status |-> [a \in Amis |-> IF a \in new_ami_ids THEN PENDING ELSE st[a]],
         instances |-> account.instances \cup DOMAIN instances_data,
         new_ami_ids |-> new_ami_ids]

\* lines 157-174: inside one transaction the account is looked up again;
\* when it is gone nothing is saved, otherwise create_new_machine_images
\* saves the images not yet known (returning their ids) and
\* create_initial_aws_instance_events saves instances and events
save_initial_describe(account, st, instances_data) ==
    IF ~account.exists
    THEN [found |-> FALSE, status |-> st, instances |-> account.instances,
          new_ami_ids |-> {}]
    ELSE LET new_ami_ids ==
                 {a \in described_image_ids(instances_data) : st[a] = NONE}
         IN  [found |-> TRUE,
              status |-> [a \in Amis |->
                             IF a \in new_ami_ids THEN PENDING ELSE st[a]],
              instances |-> account.instances \cup DOMAIN instances_data,
              new_ami_ids |-> new_ami_ids]

\* lines 132-155: the task starts; without an enabled account it returns at
\* once, otherwise it opens a session and asks for the instances
initial_aws_describe_instances_begin ==
    /\ describer.pc = "begin"
    /\ IF ~aws_account.exists
       THEN describer' = [describer EXCEPT !.pc = "done",
                                           !.result = "account_missing"]
       ELSE IF ~aws_account.is_enabled
       THEN describer' = [describer EXCEPT !.pc = "done",
                                           !.result = "account_disabled"]
       ELSE describer' = [describer EXCEPT
                             !.pc = "describing",
                             !.provider_calls = describer.provider_calls + 1]
    /\ UNCHANGED <<status, aws_account, starts, other_creates, notDescribeVars>>

\* line 155: describe_instances_everywhere returns
describe_instances_everywhere_returns(instances_data) ==
    /\ describer.pc = "describing"
    /\ describer' = [describer EXCEPT !.pc = "saving",
                                      !.instances_data = instances_data]
    /\ UNCHANGED <<status, aws_account, starts, other_creates, notDescribeVars>>

\* lines 157-174: the saving transaction; raises: one of the two helpers
\* raises and the transaction is rolled back
initial_aws_describe_instances_save(raises) ==
    /\ describer.pc = "saving"
    /\ LET saved == save_initial_describe(aws_account, status,
                                          describer.instances_data)
       IN  IF ~saved.found
           THEN /\ describer' = [describer EXCEPT !.pc = "done",
                                                  !.result = "account_deleted"]
                /\ UNCHANGED <<status, aws_account>>
           ELSE IF raises
           THEN /\ describer' = [describer EXCEPT !.pc = "done",
                                                  !.result = "raised"]
                /\ UNCHANGED <<status, aws_account>>
           ELSE /\ describer' = [describer EXCEPT
                                    !.pc = "committed",
                                    !.new_ami_ids = saved.new_ami_ids]
                /\ status' = saved.status
                /\ aws_account' = [aws_account EXCEPT
                                      !.instances = saved.instances]
    /\ UNCHANGED <<starts, other_creates, notDescribeVars>>

\* generate_aws_ami_messages(instances_data, new_ami_ids): one message for
\* each new image that a described instance runs
generate_aws_ami_messages(instances_data, new_ami_ids) ==
    described_image_ids(instances_data) \cap new_ami_ids

\* lines 175-177: the loop of start_image_inspection over the messages
RECURSIVE start_inspection_of_messages(_, _)
start_inspection_of_messages(acc, messages) ==
    IF messages = {} THEN acc
    ELSE LET image_id == CHOOSE a \in messages : TRUE
         IN  start_inspection_of_messages(
               start_image_inspection(acc, "arn", image_id, "region"),
               messages \ {image_id})

\* lines 175-177: after the transaction the new images are staged
initial_aws_describe_instances_end ==
    /\ describer.pc = "committed"
    /\ LET acc == start_inspection_of_messages(
                     [status |-> status, starts |-> starts],
                     generate_aws_ami_messages(describer.instances_data,
                                               describer.new_ami_ids))
       IN  /\ status' = acc.status
           /\ starts' = acc.starts
    /\ describer' = [describer EXCEPT !.pc = "done", !.result = "staged"]
    /\ UNCHANGED <<aws_account, other_creates, notDescribeVars>>

\* the customer deletes the cloud account; what was saved for it goes too
DeleteAccount ==
    /\ aws_account.exists
    /\ aws_account' = [exists |-> FALSE, is_enabled |-> FALSE,
                       instances |-> {}]
    /\ UNCHANGED <<status, describer, starts, other_creates, notDescribeVars>>

\* the cloud account is disabled
DisableAccount ==
    /\ aws_account.exists
    /\ aws_account.is_enabled
    /\ aws_account' = [aws_account EXCEPT !.is_enabled = FALSE]
    /\ UNCHANGED <<status, describer, starts, other_creates, notDescribeVars>>

\* the store holds no image and the task is scheduled for an enabled account
DescribeInit == AnalyzerInit

DescribeNext ==
    \/ initial_aws_describe_instances_begin
    \/ \E instances_data \in InstancesDataAnswers :
          describe_instances_everywhere_returns(instances_data)
    \/ \E raises \in BOOLEAN : initial_aws_describe_instances_save(raises)
    \/ initial_aws_describe_instances_end
    \/ DeleteAccount
    \/ DisableAccount
    \/ \E a \in Amis, st \in {PENDING, INSPECTED} : OtherTaskCreates(a, st)

SpecDescribe == DescribeInit /\ [][DescribeNext]_vars

\* a step of initial_aws_describe_instances itself
DescribeTaskTaken == describer' # describer

\* C26: initial_aws_describe_instances returns at once, with no provider call
\* and nothing written, when the account is missing or disabled at its start;
\* when the account is deleted during the describe call nothing is saved and
\* nothing is staged; otherwise staging is started only after the saving
\* transaction has committed, and only for the images this task created.
C26_DescribeSavesThenStages ==
    [][DescribeTaskTaken =>
         /\ (describer.pc = "begin"
               /\ (~aws_account.exists \/ ~aws_account.is_enabled))
            => /\ describer'.pc = "done"
               /\ describer'.provider_calls = describer.provider_calls
               /\ UNCHANGED <<status, aws_account, starts>>
         /\ (describer.pc = "saving" /\ ~aws_account.exists)
            => /\ describer'.pc = "done"
               /\ UNCHANGED <<status, aws_account, starts>>
         /\ describer.pc = "saving"
            => /\ starts' = starts
               /\ describer'.new_ami_ids =
                     {a \in Amis : status[a] = NONE /\ status'[a] # NONE}
         /\ starts' # starts
            => /\ describer.pc = "committed"
               /\ {starts'[i].ami_id : i \in (Len(starts) + 1)..Len(starts')}
                     \subseteq describer.new_ami_ids
               /\ Len(starts') <= Len(starts) + Cardinality(describer.new_ami_ids)
    ]_vars

\* the account was deleted during the describe call and the task, which had
\* instances to save, saved nothing and staged nothing
C26_Witness ==
    /\ describer.pc = "done"
    /\ describer.result = "account_deleted"
    /\ DOMAIN describer.instances_data # {}
    /\ describer.provider_calls = 1
    /\ starts = <<>>


\* C27: a feed message with events of an account that is no longer in the
\* store is not a failure: when its processing ends because the account is
\* missing, the message is acknowledged (deleted from the queue).
C27_MissingAccountIsBenign ==
    [][(MessageEnds /\ an'.raised = "DoesNotExist")
          => /\ an.message \notin feed'
             /\ an'.failures = an.failures
      ]_vars


(***************************************************************************)
(* Identity header authentication (api/authentication.py).                 *)
(***************************************************************************)
\* the account numbers an identity can carry; "" is an empty account number
AccountNumbers == {"", "100001", "100002"}
\* the usernames of the Users the store can hold
Usernames == AccountNumbers \ {""}

\* lines 91-94, 192-195, 213-216, 228-231: the flags of the four classes
AuthenticationClasses ==
    [IdentityHeaderAuthentication |->
        [require_org_admin |-> TRUE, require_account_number |-> TRUE,
         require_user |-> TRUE, create_user |-> FALSE],
     IdentityHeaderAuthenticationUserNotRequired |->
        [require_org_admin |-> TRUE, require_account_number |-> TRUE,
         require_user |-> FALSE, create_user |-> FALSE],
     IdentityHeaderAuthenticationInternal |->
        [require_org_admin |-> FALSE, require_account_number |-> FALSE,
         require_user |-> FALSE, create_user |-> FALSE],
     IdentityHeaderAuthenticationInternalCreateUser |->
        [require_org_admin |-> FALSE, require_account_number |-> TRUE,
         require_user |-> FALSE, create_user |-> TRUE]]

\* the identity header of a request: absent, not decodable, without the
\* account_number field, or an identity with an account number and the
\* is_org_admin field ("absent" when the identity has no such field)
IdentityHeader(kind, account_number, is_org_admin) ==
    [kind |-> kind, account_number |-> account_number,
     is_org_admin |-> is_org_admin]
Requests ==
    {IdentityHeader(k, "", "absent") :
        k \in {"no_header", "undecodable", "no_account_number"}}
    \cup {IdentityHeader("identity", n, o) :
            n \in AccountNumbers, o \in {"true", "false", "absent"}}

\* what authenticate answers: None, (user, True) or an exception
Answer(outcome, user, store) ==
    [outcome |-> outcome, user |-> user, users |-> store]

\* lines 15-80 parse_requests_header: (auth_header, account_number,
\* is_org_admin), or AuthenticationFailed for a malformed header
parse_requests_header(request) ==
    IF request.kind = "no_header"
    THEN [raised |-> FALSE, auth_header |-> FALSE, account_number |-> "",
          is_org_admin |-> FALSE]
    ELSE IF request.kind \in {"undecodable", "no_account_number"}
    THEN [raised |-> TRUE, auth_header |-> TRUE, account_number |-> "",
          is_org_admin |-> FALSE]
    ELSE [raised |-> FALSE, auth_header |-> TRUE,
          account_number |-> request.account_number,
          is_org_admin |-> request.is_org_admin = "true"]

\* get_user asks require_user before it looks for the User
get_user_requiring_first(self, account_number, store) ==
    IF account_number = ""
    THEN IF self.require_account_number
         THEN Answer("PermissionDenied", "none", store)
         ELSE Answer("None", "none", store)
    ELSE IF self.create_user
    THEN Answer("user", account_number, store \cup {account_number})
    ELSE IF self.require_user
    THEN Answer("AuthenticationFailed", "none", store)
    ELSE IF account_number \in store
    THEN Answer("user", account_number, store)
    ELSE Answer("None", "none", store)

\* lines 116-160 get_user: the User of the account number, created when
\* create_user is set
get_user(self, account_number, store) ==
    IF account_number = ""
    THEN IF self.require_account_number
         THEN Answer("PermissionDenied", "none", store)
         ELSE Answer("None", "none", store)
    ELSE IF self.create_user
    THEN Answer("user", account_number, store \cup {account_number})
    ELSE IF account_number \in store
    THEN Answer("user", account_number, store)
    ELSE IF self.require_user
    THEN Answer("AuthenticationFailed", "none", store)
    ELSE Answer("None", "none", store)

\* lines 162-176 authenticate, with assert_org_admin (lines 96-114)
authenticate_answer(self, request, store) ==
    LET parsed == parse_requests_header(request)
    IN  IF parsed.raised
        THEN Answer("AuthenticationFailed", "none", store)
        ELSE IF ~parsed.auth_header
        THEN IF ~self.require_account_number /\ ~self.require_org_admin
             THEN Answer("None", "none", store)
             ELSE Answer("AuthenticationFailed", "none", store)
        ELSE IF self.require_org_admin /\ ~parsed.is_org_admin
        THEN Answer("PermissionDenied", "none", store)
        ELSE get_user(self, parsed.account_number, store)

\* everything but the variables of the authentication
notAuthVars ==
    <<pipelineVars, tagVars, analyzerVars, stagingVars, describeVars,
      scalerVars, callVars>>

\* a request is authenticated by one of the four classes
authenticate(class, request) ==
    /\ LET answer == authenticate_answer(AuthenticationClasses[class], request,
                                         users)
       IN  /\ users' = answer.users
           /\ authenticated' = [class |-> class, request |-> request,
                                outcome |-> answer.outcome,
                                user |-> answer.user]
    /\ UNCHANGED notAuthVars

\* a User is created by another request or by the account set-up
CreateUser(username) ==
    /\ username \notin users
    /\ users' = users \cup {username}
    /\ UNCHANGED <<authenticated, notAuthVars>>

\* a User is deleted
DeleteUser(username) ==
    /\ username \in users
    /\ users' = users \ {username}
    /\ UNCHANGED <<authenticated, notAuthVars>>

AuthInit == Init

AuthNext ==
    \/ \E class \in DOMAIN AuthenticationClasses, request \in Requests :
          authenticate(class, request)
    \/ \E username \in Usernames : CreateUser(username)
    \/ \E username \in Usernames : DeleteUser(username)

SpecAuth == AuthInit /\ [][AuthNext]_vars

\* the step is a call of authenticate
AuthenticateTaken == authenticated' # authenticated

C29_ProviderCallsBeforeTransaction ==
    [][/\ \A c \in an'.provider_calls : ~c.in_transaction
       /\ InTransaction => an'.provider_calls = an.provider_calls
      ]_vars

\* the transaction is open and has written an image, after the log objects
\* were fetched and instances and images were described
C29_Witness ==
    /\ an.pc = "rest"
    /\ \E a \in Amis : an.tx[a] # NONE
    /\ {c.call : c \in an.provider_calls} =
          {"get_object_content_from_s3", "describe_instances",
           "describe_images"}


\* C30: _save_cloudtrail_activity creates an UNAVAILABLE placeholder exactly
\* for the image ids the message refers to that are neither described nor
\* in the store; a described or stored id gets no placeholder, and an image
\* that exists is never changed to UNAVAILABLE.
C30_PlaceholdersExactlyForUnknown ==
    [][/\ (an.pc = "save" /\ an'.pc = "stub") =>
             an'.unavailable =
                {a \in body[an.message] :
                    /\ an.described[a].kind = "none"
                    /\ visible(status, an'.tx)[a] = NONE}
       /\ (an.pc = "stub" /\ an'.pc = "rest") =>
             \A a \in Amis :
                /\ (an'.tx[a] = UNAVAILABLE /\ an.tx[a] # UNAVAILABLE)
                      <=> a \in an.unavailable
                /\ a \in an.unavailable =>
                      /\ a \in body[an.message]
                      /\ an.described[a].kind = "none"
                      /\ visible(status, an.tx)[a] = NONE
       /\ \A a \in Amis :
             (status[a] # NONE /\ status[a] # UNAVAILABLE)
                => status'[a] # UNAVAILABLE
      ]_vars

\* a message referred to two images: the one that is neither described nor
\* stored got its placeholder, the one in the store got none
C30_Witness ==
    /\ an.pc = "rest"
    /\ body[an.message] = Amis
    /\ \E a, b \in Amis :
          /\ an.tx[a] = UNAVAILABLE /\ status[a] = NONE
          /\ an.tx[b] = NONE /\ status[b] # NONE


\* C36: initial_aws_describe_instances checks again, after the describe
\* call, that the account is enabled: when the account was disabled during
\* the call nothing is saved and no staging is triggered.
C36_DisabledDuringDescribeSavesNothing ==
    [][(DescribeTaskTaken /\ describer.pc = "saving"
          /\ ~aws_account.is_enabled)
          => /\ describer'.pc = "done"
             /\ UNCHANGED <<status, aws_account, starts>>
      ]_vars


\* C37: whenever run_inspection_cluster finishes a batch without launching
\* a scan job (nothing survived the filter, or no volume could be attached)
\* it requests a scale-down of the cluster.
C37_NoJobRequestsScaleDown ==
    [][(RunTaskTaken /\ last'.result \in {"nothing_relevant", "no_targets"})
          => scale_down_tasks'
      ]_vars


(***************************************************************************)
(* Overlapping runs of scale_up_inspection_cluster: the check of the group *)
(* (lines 577-600) and the dispatch (602-618) are separate calls to the    *)
(* provider, and nothing keeps a second run from starting in between.      *)
(***************************************************************************)
\* lines 577-600: aws.is_scaled_down; a run that finds the group scaled up
\* returns quietly
scale_up_inspection_cluster_check(e) ==
    /\ scalers[e] = "idle"
    /\ IF is_scaled_down(asg, hosts)
       THEN /\ scalers' = [scalers EXCEPT ![e] = "scaled_down"]
            /\ UNCHANGED last
       ELSE /\ scalers' = scalers
            /\ last' = Did("scale_up_inspection_cluster", "not_scaled_down",
                           <<>>, <<>>)
    /\ UNCHANGED <<storeVars, volumeVars, queue, duplicates, clusterVars,
                   enqueue_tasks, run_tasks, scale_down_tasks, jobs, launches,
                   debug>>

\* lines 602-618: the messages are read, the group is scaled up and the
\* batch is dispatched
scale_up_inspection_cluster_dispatch(e, scale_ok) ==
    /\ scalers[e] = "scaled_down"
    /\ scalers' = [scalers EXCEPT ![e] = "idle"]
    /\ LET messages == read_messages_from_queue(
                          queue, HOUNDIGRADE_AWS_VOLUME_BATCH_SIZE)
           rest == Suffix(queue, Len(messages))
       IN  IF Len(messages) = 0
           THEN /\ scale_ok
                /\ last' = Did("scale_up_inspection_cluster", "no_messages",
                               <<>>, <<>>)
                /\ UNCHANGED <<queue, asg, run_tasks>>
           ELSE IF ~scale_ok
           THEN /\ queue' = add_messages_to_queue(rest, messages)
                /\ last' = Did("scale_up_inspection_cluster", "ClientError",
                               messages, <<>>)
                /\ UNCHANGED <<asg, run_tasks>>
           ELSE /\ queue' = rest
                /\ asg' = scale_up(asg)
                /\ run_tasks' = Append(run_tasks, NewRunTask(messages))
                /\ last' = Did("scale_up_inspection_cluster", "dispatched",
                               messages, <<>>)
    /\ UNCHANGED <<storeVars, volumeVars, duplicates, hosts, host_running,
                   enqueue_tasks, scale_down_tasks, jobs, launches, debug>>

\* everything beside the pipeline and the scaler runs
notScalerVars ==
    <<tagVars, analyzerVars, stagingVars, describeVars, authVars, callVars>>

ScalersNext ==
    \/ (\E v \in Vols : VolumeBecomesAvailable(v)) /\ UNCHANGED besideVars
    \/ HostJoins /\ UNCHANGED besideVars
    \/ HostRuns /\ UNCHANGED besideVars
    \/ HostsTerminate /\ UNCHANGED besideVars
    \/ (\E t \in enqueue_tasks : enqueue_ready_volume(t))
          /\ UNCHANGED besideVars
    \/ scale_down_cluster /\ UNCHANGED besideVars
    \/ (\E e \in Scalers : scale_up_inspection_cluster_check(e))
          /\ UNCHANGED notScalerVars
    \/ (\E e \in Scalers, scale_ok \in BOOLEAN :
          scale_up_inspection_cluster_dispatch(e, scale_ok))
          /\ UNCHANGED notScalerVars
    \/ (\E k \in 1..Len(run_tasks), launch_ok \in BOOLEAN :
         \E answers \in [1..Len(relevant_messages(run_tasks[k].messages,
                                                   status)) -> AttachAnswers] :
            run_inspection_cluster(k, answers, launch_ok))
          /\ UNCHANGED besideVars
    \/ (\E j \in 1..Len(jobs) :
         \E inspection_results \in ResultsFor(jobs[j]) :
            persist_inspection_cluster_results_task(j, inspection_results))
          /\ UNCHANGED besideVars

SpecScalers == Init /\ [][ScalersNext]_vars

\* the step dispatches a batch to run_inspection_cluster
BatchDispatched == Len(run_tasks') > Len(run_tasks)

\* C38: two overlapping runs of scale_up_inspection_cluster cannot both pass
\* the scaled-down check and both dispatch: a batch is dispatched only from
\* a group at zero capacity, so between two moments at which the group is at
\* zero at most one batch is dispatched.
C38_OneDispatchPerScaleUp ==
    [][BatchDispatched => is_scaled_down(asg, hosts)]_vars


(***************************************************************************)
(* _build_events_info_for_saving (tasks.py 1629-1666) and the saving of    *)
(* its result (1431-1433).                                                 *)
(***************************************************************************)
\* the most instance events a call is given
MaxInstanceEvents == 2

\* the timestamps of events as CloudTrail writes them, in order of time
EventTimes ==
    <<"2020-01-01T00:00:00Z", "2020-01-02T00:00:00Z", "2020-01-03T00:00:00Z">>

\* dateutil's parse of a timestamp: the moment it names (here the day)
parse(occurred_at) == CHOOSE d \in 1..Len(EventTimes) : EventTimes[d] = occurred_at

\* an instance event of the log; instance_type "none" is None
CloudTrailInstanceEvent(event_type, occurred_at, instance_type) ==
    [event_type |-> event_type, occurred_at |-> occurred_at,
     instance_type |-> instance_type]
InstanceEvents ==
    {CloudTrailInstanceEvent(e, EventTimes[d], t) :
        e \in {"power_on", "power_off"}, d \in 1..Len(EventTimes),
        t \in {"none", "t2.micro"}}

\* the sequences of at most n elements of a set
SeqUpTo(set, n) == UNION {[1..k -> set] : k \in 0..n}

\* the filter keeps only the events later than the creation of the account
events_info_after_creation(created_at, known_type, events) ==
    LET F[i \in 0..Len(events)] ==
          IF i = 0 THEN <<>>
          ELSE IF parse(events[i].occurred_at) > created_at
          THEN Append(F[i - 1],
                      [instance_type |->
                          IF events[i].instance_type # "none"
                          THEN events[i].instance_type ELSE known_type,
                       event_type |-> events[i].event_type,
                       occurred_at |-> events[i].occurred_at])
          ELSE F[i - 1]
    IN  F[Len(events)]

\* lines 1653-1666: the list comprehension over events, with its filter
\* on account.created_at and its fallback to the instance's type
_build_events_info_for_saving(created_at, known_type, events) ==
    LET F[i \in 0..Len(events)] ==
          IF i = 0 THEN <<>>
          ELSE IF parse(events[i].occurred_at) >= created_at
          THEN Append(F[i - 1],
                      [instance_type |->
                          IF events[i].instance_type # "none"
                          THEN events[i].instance_type ELSE known_type,
                       event_type |-> events[i].event_type,
                       occurred_at |-> events[i].occurred_at])
          ELSE F[i - 1]
    IN  F[Len(events)]

\* everything but the helper under check
notCallVars ==
    <<pipelineVars, tagVars, analyzerVars, stagingVars, describeVars,
      authVars, scalerVars>>

\* the state in which a helper is checked on its own: nothing else runs
HelperInit ==
    /\ status = [a \in Amis |-> NONE]
    /\ inspection_json = [a \in Amis |-> "null"]
    /\ volume = [v \in Vols |-> "creating"]
    /\ device = [v \in Vols |-> "none"]
    /\ delete_on_term = {}
    /\ queue = <<>>
    /\ duplicates = 0
    /\ asg = [MinSize |-> 0, MaxSize |-> 0, DesiredCapacity |-> 0]
    /\ hosts = 0
    /\ host_running = FALSE
    /\ enqueue_tasks = {}
    /\ run_tasks = <<>>
    /\ scale_down_tasks = FALSE
    /\ jobs = <<>>
    /\ launches = <<>>
    /\ debug = FALSE
    /\ last = NoLast
    /\ ami_tag_events = <<>>
    /\ tag_change = NoTagChange
    /\ feed = {}
    /\ body = [m \in FeedMessages |-> {}]
    /\ an = AnalyzerIdle
    /\ starts = <<>>
    /\ other_creates = 0
    /\ staging_tasks = {}
    /\ ec2 = NoEc2
    /\ is_encrypted = {}
    /\ image_copies = {}
    /\ aws_marketplace_image = {}
    /\ staged = NoStaged
    /\ aws_account = NewAccount
    /\ describer = DescriberIdle
    /\ users = {}
    /\ authenticated = NoAuthenticated
    /\ scalers = ScalersIdle

\* the events of one instance are about to be saved
EventsInit ==
    /\ HelperInit
    /\ \E events \in SeqUpTo(InstanceEvents, MaxInstanceEvents),
          created_at \in 1..Len(EventTimes),
          known_type \in {"none", "m5.large"} :
          helper = [op |-> "events", events |-> events,
                    created_at |-> created_at, known_type |-> known_type,
                    saved |-> <<>>, done |-> FALSE]

\* lines 1431-1433: the events info is built and handed to
\* save_instance_events
save_events_of_instance ==
    /\ helper.op = "events"
    /\ ~helper.done
    /\ helper' = [helper EXCEPT
                    !.done = TRUE,
                    !.saved = _build_events_info_for_saving(
                                 helper.created_at, helper.known_type,
                                 helper.events)]
    /\ UNCHANGED notCallVars

EventsNext == save_events_of_instance

SpecEvents == EventsInit /\ [][EventsNext]_vars

\* the events of the call that are not older than the account
KeptEvents(h) ==
    {i \in 1..Len(h.events) : parse(h.events[i].occurred_at) >= h.created_at}

\* C33: instance events older than the creation of their account are dropped
\* and never saved; the events at or after the creation are all kept, in
\* their order, and an event without instance type is saved with the known
\* type of the instance.
C33_EventsBeforeAccountDropped ==
    (helper.op = "events" /\ helper.done) =>
       /\ Len(helper.saved) = Cardinality(KeptEvents(helper))
       /\ \A i \in KeptEvents(helper) :
             LET k == Cardinality({j \in KeptEvents(helper) : j <= i})
                 event == helper.events[i]
             IN  /\ helper.saved[k].occurred_at = event.occurred_at
                 /\ helper.saved[k].event_type = event.event_type
                 /\ helper.saved[k].instance_type =
                       IF event.instance_type # "none"
                       THEN event.instance_type ELSE helper.known_type

\* of two events the one older than the account was dropped; the one at the
\* very moment of the creation, which has no type, was saved with the
\* instance's type
C33_Witness ==
    /\ helper.op = "events" /\ helper.done
    /\ Len(helper.events) = 2 /\ Len(helper.saved) = 1
    /\ parse(helper.events[1].occurred_at) < helper.created_at
    /\ parse(helper.events[2].occurred_at) = helper.created_at
    /\ helper.events[2].instance_type = "none"
    /\ helper.saved[1].instance_type = "m5.large"


(***************************************************************************)
(* The gap-fill pass of the analyzer: _load_missing_instance_data          *)
(* (tasks.py 1005-1132) and _load_missing_ami_data (1135-1213).            *)
(***************************************************************************)
\* the most instance events a feed message carries
MaxMessageEvents == 3

\* the instances the events speak of, each in its account, all in a region
Ec2Instances == {"i-1", "i-2", "i-3"}
AwsAccountOf ==
    [i \in Ec2Instances |-> IF i = "i-2" THEN "acct-B" ELSE "acct-A"]
\* what the provider says the image of an instance is
DescribedImageOf ==
    [i \in Ec2Instances |-> IF i = "i-2" THEN "ami-2" ELSE "ami-1"]

\* an instance event as extract_ec2_instance_events builds it; "none" is None
InstanceEvent(i, ec2_ami_id, instance_type) ==
    [ec2_instance_id |-> i, aws_account_id |-> AwsAccountOf[i],
     region |-> "us-east-1", ec2_ami_id |-> ec2_ami_id,
     instance_type |-> instance_type]
\* a RunInstances event with everything, a stop event without image id, and
\* an event with the image id and without the type
MessageEvents ==
    {InstanceEvent(i, a, "t2.micro") : i \in Ec2Instances, a \in Amis}
    \cup {InstanceEvent(i, "none", "t2.micro") : i \in Ec2Instances}
    \cup {InstanceEvent(i, "ami-1", "none") : i \in Ec2Instances}

\* lines 1475-1480
_instance_event_is_complete(instance_event) ==
    /\ instance_event.instance_type # "none"
    /\ instance_event.ec2_ami_id # "none"

\* itertools.groupby(items, key=(aws_account_id, region)): the runs of
\* consecutive items that have the same account and region, in order
RECURSIVE groupby_account_region(_)
groupby_account_region(items) ==
    IF items = <<>> THEN <<>>
    ELSE LET rest == groupby_account_region(Tail(items))
             item == Head(items)
         IN  IF /\ rest # <<>>
                /\ Head(rest)[1].aws_account_id = item.aws_account_id
                /\ Head(rest)[1].region = item.region
             THEN <<(<<item>> \o Head(rest))>> \o Tail(rest)
             ELSE <<(<<item>>)>> \o rest

\* lines 1044-1066: the instances that need no describe: an event of the
\* batch is complete for them, or the store holds their image and a type
defined_ec2_instance_ids(instance_events, stored) ==
    {instance_events[k].ec2_instance_id : k \in
       {k \in 1..Len(instance_events) :
          \/ _instance_event_is_complete(instance_events[k])
          \/ instance_events[k].ec2_instance_id \in stored}}

\* a call of describe_instances or describe_images: its account and region
\* and the ids it asks for
DescribeCall(aws_account_id, region, ids) ==
    [aws_account_id |-> aws_account_id, region |-> region, ids |-> ids]

\* lines 1068-1108: one describe_instances call for each group of groupby
\* that has instances left to describe; terminated: the instances the
\* provider no longer knows
describe_instances_calls(instance_events, defined) ==
    LET groups == groupby_account_region(instance_events)
        ids(g) == {groups[g][k].ec2_instance_id : k \in 1..Len(groups[g])}
                     \ defined
        calling == SelectSeq([g \in 1..Len(groups) |-> g],
                             LAMBDA g : ids(g) # {})
    IN  [c \in 1..Len(calling) |->
            DescribeCall(groups[calling[c]][1].aws_account_id,
                         groups[calling[c]][1].region, ids(calling[c]))]

\* the events keep the image id they came with
not_backfilled(instance_events, described_instances) == instance_events

\* lines 1110-1115: the events without image id get the described one
backfilled(instance_events, described_instances) ==
    [k \in 1..Len(instance_events) |->
        IF /\ instance_events[k].ec2_ami_id = "none"
           /\ instance_events[k].ec2_instance_id \in described_instances
        THEN [instance_events[k] EXCEPT
                 !.ec2_ami_id =
                    DescribedImageOf[instance_events[k].ec2_instance_id]]
        ELSE instance_events[k]]

\* lines 1005-1132 _load_missing_instance_data
_load_missing_instance_data(instance_events, stored, terminated) ==
    LET defined == defined_ec2_instance_ids(instance_events, stored)
        calls == describe_instances_calls(instance_events, defined)
        described_instances ==
            UNION {calls[c].ids : c \in 1..Len(calls)} \ terminated
    IN  [calls |-> calls, described_instances |-> described_instances,
         instance_events |-> backfilled(instance_events, described_instances)]

\* lines 1149-1166: the new images keyed by account and region, a set
new_amis_keyed(instance_events, known_ami_ids) ==
    {[aws_account_id |-> instance_events[k].aws_account_id,
      region |-> instance_events[k].region,
      ec2_ami_id |-> instance_events[k].ec2_ami_id] :
        k \in {k \in 1..Len(instance_events) :
                 /\ instance_events[k].ec2_ami_id # "none"
                 /\ instance_events[k].ec2_ami_id \notin known_ami_ids}}

\* the orders in which a set can be walked
Orders(set) ==
    {o \in [1..Cardinality(set) -> set] :
        \A i, j \in 1..Cardinality(set) : i # j => o[i] # o[j]}

\* lines 1171-1181: one describe_images call for each group of groupby over
\* the set, walked in the order keyed
describe_images_calls(keyed) ==
    LET groups == groupby_account_region(keyed)
    IN  [g \in 1..Len(groups) |->
            DescribeCall(groups[g][1].aws_account_id, groups[g][1].region,
                         {groups[g][k].ec2_ami_id : k \in 1..Len(groups[g])})]

\* a feed message is about to be gap-filled
GapFillInit ==
    /\ HelperInit
    /\ \E instance_events \in SeqUpTo(MessageEvents, MaxMessageEvents),
          stored \in SUBSET {"i-3"}, terminated \in SUBSET {"i-1"},
          known_ami_ids \in SUBSET {"ami-2"} :
          helper = [op |-> "gap_fill", pc |-> "instances",
                    instance_events |-> instance_events, stored |-> stored,
                    terminated |-> terminated,
                    known_ami_ids |-> known_ami_ids,
                    described_instances |-> {},
                    instance_calls |-> <<>>, image_calls |-> <<>>,
                    loaded_events |-> <<>>]

\* line 965: described_instances = _load_missing_instance_data(...)
load_missing_instance_data ==
    /\ helper.op = "gap_fill"
    /\ helper.pc = "instances"
    /\ LET loaded == _load_missing_instance_data(
                        helper.instance_events, helper.stored,
                        helper.terminated)
       IN  helper' = [helper EXCEPT
                        !.pc = "images",
                        !.instance_calls = loaded.calls,
                        !.described_instances = loaded.described_instances,
                        !.loaded_events = loaded.instance_events]
    /\ UNCHANGED notCallVars

\* line 966: described_amis = _load_missing_ami_data(...); keyed: the order
\* in which the set of new images is walked
load_missing_ami_data(keyed) ==
    /\ helper.op = "gap_fill"
    /\ helper.pc = "images"
    /\ helper' = [helper EXCEPT !.pc = "done",
                                !.image_calls = describe_images_calls(keyed)]
    /\ UNCHANGED notCallVars

GapFillNext ==
    \/ load_missing_instance_data
    \/ \E keyed \in Orders(new_amis_keyed(helper.loaded_events,
                                          helper.known_ami_ids)) :
          load_missing_ami_data(keyed)

SpecGapFill == GapFillInit /\ [][GapFillNext]_vars

\* no two calls of the sequence are for the same account and region
OneCallPerGroup(calls) ==
    \A c, d \in 1..Len(calls) :
       (c # d) => \/ calls[c].aws_account_id # calls[d].aws_account_id
                  \/ calls[c].region # calls[d].region

\* C31: while one feed message is processed, at most one describe-instances
\* call and at most one describe-images call is made for each (account,
\* region), whatever the order of the events in the message.
C31_OneDescribePerAccountRegion ==
    helper.op = "gap_fill" =>
       /\ OneCallPerGroup(helper.instance_calls)
       /\ OneCallPerGroup(helper.image_calls)


\* the events of the message that speak of instance i
EventsOf(h, i) ==
    {k \in 1..Len(h.instance_events) :
        h.instance_events[k].ec2_instance_id = i}
\* the instances asked for in the describe_instances calls
AskedFor(h) ==
    UNION {h.instance_calls[c].ids : c \in 1..Len(h.instance_calls)}

StagedImages == Amis \cup {CopyOf[a] : a \in Amis}

\* C34: on its success path copy_ami_snapshot grants read access on the
\* customer snapshot, requests the snapshot copy and schedules
\* remove_snapshot_ownership; remove_snapshot_ownership removes the grant
\* only after the snapshot copy is completed or found deleted, and then it
\* does remove it, so no grant stays in place for a completed copy without
\* its removal being pending.
C34_GrantRemovedOnceCopyDurable ==
    [][/\ \A s \in ec2'.snapshot_copies \ ec2.snapshot_copies :
             \E t \in staging_tasks' \ staging_tasks :
                /\ t.task = "remove_snapshot_ownership"
                /\ t.snapshot_copy_id = s
                /\ t.snapshot_id \in ec2'.shared
       /\ \A t \in StagingTasksRun :
             t.task = "remove_snapshot_ownership" =>
                /\ \/ t.snapshot_copy_id \in ec2.completed
                   \/ t.snapshot_copy_id \notin ec2.snapshot_copies
                /\ t.snapshot_id \notin ec2'.shared
       /\ ec2'.shared # ec2.shared /\ ec2'.shared \subseteq ec2.shared =>
             \E t \in StagingTasksRun :
                /\ t.task = "remove_snapshot_ownership"
                /\ ec2.shared \ ec2'.shared = {t.snapshot_id}
       /\ \A a \in StagedImages :
             (/\ SnapshotCopyOf(SnapshotOf(a)) \in ec2.completed
              /\ SnapshotOf(a) \in ec2.shared)
             => remove_snapshot_ownership_delay(
                   SnapshotOf(a), SnapshotCopyOf(SnapshotOf(a)))
                   \in staging_tasks
      ]_vars

\* the one snapshot copy made is completed and remove_snapshot_ownership
\* has taken the grant off the customer snapshot
C34_Witness ==
    /\ staged.task = "remove_snapshot_ownership"
    /\ Cardinality(ec2.snapshot_copies) = 1
    /\ ec2.completed = ec2.snapshot_copies
    /\ ec2.shared = {}


(***************************************************************************)
(* C35: the two follow-ups of create_volume                                *)
(***************************************************************************)
\* the create_volume tasks whose volume the step creates
VolumesCreated ==
    {t \in StagingTasksRun :
        /\ t.task = "create_volume"
        /\ volume[VolumeOf[t.ami_id]] # volume'[VolumeOf[t.ami_id]]}
\* the delete_snapshot tasks the step runs, to their end or to a failure
SnapshotDeletesRun == {t \in StagingTasksRun : t.task = "delete_snapshot"}

\* C35: a create_volume that made its volume schedules delete_snapshot and
\* enqueue_ready_volume for that volume; a delete_snapshot and an
\* enqueue_ready_volume act only on a volume the provider reports available;
\* a run of one of them, failed or not, leaves the pending and the done work
\* of the other as it is, and the message of a volume is enqueued once
C35_FollowUpsWaitAndAreIndependent ==
    [][/\ \A t \in VolumesCreated :
            /\ delete_snapshot_delay(t.snapshot_copy_id, VolumeOf[t.ami_id])
                  \in staging_tasks' \ staging_tasks
            /\ Message(t.ami_id, VolumeOf[t.ami_id])
                  \in enqueue_tasks' \ enqueue_tasks
       /\ \A t \in SnapshotDeletesRun :
            /\ volume[t.volume_id] = "available"
            /\ enqueue_tasks' = enqueue_tasks
            /\ queue' = queue
       /\ \A t \in EnqueueTasksRun :
            /\ volume[t.volume_id] = "available"
            /\ queue' = Append(queue, t)
            /\ \A i \in 1..Len(queue) : queue[i] # t
            /\ staging_tasks' = staging_tasks
            /\ ec2' = ec2
       /\ (/\ ec2'.snapshot_copies # ec2.snapshot_copies
           /\ ec2'.snapshot_copies \subseteq ec2.snapshot_copies
           /\ staged' # staged)
            => SnapshotDeletesRun # {}
       /\ (queue' # queue => EnqueueTasksRun # {})]_vars

\* delete_snapshot failed for good and the message of its volume was
\* enqueued all the same
C35_Witness ==
    /\ staged.task = "delete_snapshot"
    /\ staged.raised = "ClientError"
    /\ \A t \in staging_tasks : t.task # "delete_snapshot"
    /\ \E i \in 1..Len(queue) : volume[queue[i].volume_id] = "available"


(***************************************************************************)
(* The analyzer under fairness: analyze_log is run periodically, so that   *)
(* each of its steps is taken when it can be, and neither the save nor the *)
(* start of an inspection raises for ever.                                 *)
(***************************************************************************)
AnalyzerFairness ==
    /\ WF_vars(analyze_log_begin)
    /\ WF_vars(analyze_log_next)
    /\ WF_vars(\E answer \in [Amis -> DescribeAnswers] :
                  load_missing_data(answer, TRUE))
    /\ SF_vars(save_cloudtrail_activity_images(FALSE))
    /\ WF_vars(save_cloudtrail_activity_stubs)
    /\ SF_vars(save_cloudtrail_activity_rest(FALSE))
    /\ SF_vars(process_cloudtrail_message_end(0))

SpecAnalyzerFair == SpecAnalyzer /\ AnalyzerFairness

\* start_image_inspection has been called for the image
InspectionStarted(a) == \E i \in 1..Len(starts) : starts[i].ami_id = a

\* C39: every image the analyzer has created in PENDING status (the save is
\* committed and the image is one of new_images) eventually has
\* start_image_inspection called for it, even when a start raised and the
\* message was left on the queue to be processed again
C39_PendingEventuallyStaged ==
    \A a \in Amis :
       (an.pc = "start" /\ a \in an.new_images /\ status[a] = PENDING)
          ~> InspectionStarted(a)


(***************************************************************************)
(* C40: no staging chain ends silently                                     *)
(***************************************************************************)
\* the image of the store an image id stands for: itself, or the image it
\* is the copy of
ImageOf(ami_id) ==
    IF ami_id \in Amis THEN ami_id
    ELSE CHOOSE a \in Amis : CopyOf[a] = ami_id
\* the image whose staging chain a task belongs to
ChainImage(t) ==
    ImageOf(IF t.reference_ami_id # "none" THEN t.reference_ami_id
            ELSE t.ami_id)
ChainTasks == {"copy_ami_snapshot", "copy_ami_to_customer_account"}

\* C40: when copy_ami_snapshot or copy_ami_to_customer_account returns
\* without raising for an image whose record exists, either the image is in
\* a terminal status (ERROR or INSPECTED) or a further task of its chain is
\* scheduled: another copy task, or the volume task of the image
C40_ChainNeverEndsSilently ==
    [][\A t \in StagingTasksRun :
          (/\ t.task \in ChainTasks
           /\ status[ChainImage(t)] # NONE
           /\ staged'.raised = "none")
             => \/ status'[ChainImage(t)] \in {ERROR, INSPECTED}
                \/ \E u \in staging_tasks' :
                      /\ u.task \in ChainTasks \cup {"create_volume"}
                      /\ ChainImage(u) = ChainImage(t)]_vars

====
